---- MODULE Spec2Model ----
(***************************************************************************)
(* Model of the exchange workflow of src/main.py: the exchange_requests    *)
(* table, the four bot_data registries (wallet_flow, payout_flow,          *)
(* exchange_collect, payout_wallet_collect), the job queue carrying the    *)
(* 30-minute expiry jobs, and the handlers that move a request through its *)
(* statuses (show_exchange, handle_exchange_approval, log_any_message,     *)
(* finalize_payout, expire_exchange_request).                              *)
(*                                                                         *)
(* Every handler is an operator from a program state (a record of the      *)
(* tables and registries) to the program state after the handler returns;  *)
(* an action applies the handlers that python-telegram-bot runs for one    *)
(* update (one handler per handler group, groups in ascending order).      *)
(* Time is counted in minutes.                                             *)
(***************************************************************************)
EXTENDS Integers, Sequences, FiniteSets, TLC

VARIABLES
    exchange_requests,      \* the exchange_requests table: row id = index
    users,                  \* the users table: telegram_id -> row
    wallet_flow,            \* bot_data["wallet_flow"]: admin id -> entry
    payout_flow,            \* bot_data["payout_flow"]: admin id -> entry
    exchange_collect,       \* bot_data["exchange_collect"]: user id -> entry
    payout_wallet_collect,  \* bot_data["payout_wallet_collect"]: user id -> entry
    jobs,                   \* one-shot jobs of the job queue, not yet run
    keyboards,              \* inline keyboards the administrator can still press
    conv,                   \* ConversationHandler state of each user
    user_data,              \* context.user_data of each user
    payments,               \* the payments table: row id = index
    now,                    \* the clock, in minutes
    ticks,                  \* how many times the clock has advanced
    stale,                  \* presses that left their keyboard on the screen
    expiring,               \* jobs that run: the status is read, not yet written
    name_text,              \* a text handed to is_english_name, as its characters
    verdict                 \* what is_english_name returned for it

vars == <<exchange_requests, users, wallet_flow, payout_flow, exchange_collect,
          payout_wallet_collect, jobs, keyboards, conv, user_data, payments,
          now, ticks, stale, expiring, name_text, verdict>>

-----------------------------------------------------------------------------
(* Bounds of the model                                                     *)

\* rows the exchange_requests table may hold
MaxEx == 2
\* rows the table may hold where a pressed keyboard may stay on the screen
MaxExStale == 1
\* times the clock may advance
MaxTicks == 2
\* presses after which the pressed keyboard is still on the screen
MaxStale == 1
\* jobs that wait in the job queue at the same time, where a step that is
\* cut short can be repeated
MaxJobs == 2
\* verification requests of one user that are shown at the same time
MaxSubmissions == 2
\* the highest value the attempts counter of a user takes
MaxAttempts == 4

(* Program constants                                                       *)

\* timedelta(minutes=30): the transfer window and the delay of the expiry job
ExpiryMinutes == 30
\* timedelta(days=30): the cooldown after a completed exchange
CooldownDays == 30
\* minutes in a day: timedelta.days counts whole days
MinutesPerDay == 1440
\* a NULL TEXT column holding a timestamp
NoTime == -1
\* a NULL TEXT column, an absent dict key, an absent part of a message
NULL == "NULL"

\* config.admin_chat_id: the one administrator
Admin == "admin"
\* the users of the bot
Users == {"u1", "u2"}
\* message contents: a text, or the file_id of the largest photo size
Texts == {"t1"}
Photos == {"p1"}
\* how far the clock advances in one step: the transfer window, and the
\* cooldown less one window
TickSteps == {ExpiryMinutes, CooldownDays * MinutesPerDay - ExpiryMinutes}

Terminal == {"completed", "rejected", "expired"}
OpenStatuses == {"pending_admin", "awaiting_wallet", "awaiting_transfer",
                 "awaiting_user_wallet", "awaiting_payout"}

-----------------------------------------------------------------------------
(* Python dicts                                                            *)

Put(d, k, v) == [x \in DOMAIN d \cup {k} |-> IF x = k THEN v ELSE d[x]]
Pop(d, k) == [x \in DOMAIN d \ {k} |-> d[x]]
EmptyDict == [x \in {} |-> NULL]

(* Outbound messages: who receives it, what it says, a number it carries   *)
Msg(to, tag, n) == [to |-> to, tag |-> tag, n |-> n]
Send(s, to, tag, n) == [s EXCEPT !.sent = @ \cup {Msg(to, tag, n)}]

-----------------------------------------------------------------------------
(* The record store                                                        *)

NewRow(user_id, tx_hash, screenshot_file_id) ==
    [user_id |-> user_id, tx_hash |-> tx_hash,
     screenshot_file_id |-> screenshot_file_id, status |-> "pending_admin",
     approved_at |-> NoTime, expires_at |-> NoTime, payout_tx_hash |-> NULL,
     payout_screenshot_file_id |-> NULL, completed_at |-> NoTime,
     wallet_address |-> NULL, user_wallet_address |-> NULL]

insert_exchange_request(ex, user_id, tx_hash, screenshot_file_id) ==
    Append(ex, NewRow(user_id, tx_hash, screenshot_file_id))

\* the keyword arguments of set_exchange_status, all None by default
NoArgs ==
    [approved_at |-> NoTime, expires_at |-> NoTime, payout_tx_hash |-> NULL,
     payout_screenshot_file_id |-> NULL, completed_at |-> NoTime,
     wallet_address |-> NULL, user_wallet_address |-> NULL]

\* COALESCE with its arguments the other way round: the new value wins
CoalesceNewFirst(old, new, null) == IF new # null THEN new ELSE old

Coalesce(old, new, null) == IF old # null THEN old ELSE new

set_exchange_status(ex, exchange_id, status, a) ==
    [i \in DOMAIN ex |->
        IF i # exchange_id THEN ex[i]
        ELSE [ex[i] EXCEPT
                !.status = status,
                !.approved_at = Coalesce(@, a.approved_at, NoTime),
                !.expires_at = Coalesce(@, a.expires_at, NoTime),
                !.payout_tx_hash = Coalesce(@, a.payout_tx_hash, NULL),
                !.payout_screenshot_file_id =
                    Coalesce(@, a.payout_screenshot_file_id, NULL),
                !.completed_at = Coalesce(@, a.completed_at, NoTime),
                !.wallet_address = Coalesce(@, a.wallet_address, NULL),
                !.user_wallet_address = Coalesce(@, a.user_wallet_address, NULL)]]

Max(S) == CHOOSE x \in S : \A y \in S : y <= x

\* the latest completed_at among the user's completed rows, NoTime if none
get_last_completed_exchange_date(ex, user_id) ==
    LET done == {ex[i].completed_at : i \in
                    {j \in DOMAIN ex : /\ ex[j].user_id = user_id
                                       /\ ex[j].status = "completed"
                                       /\ ex[j].completed_at # NoTime}}
    IN  IF done = {} THEN NoTime ELSE Max(done)

\* the same SELECT with only the first status in its IN list
has_open_exchange_first_status(ex, user_id) ==
    \E i \in DOMAIN ex : ex[i].user_id = user_id /\ ex[i].status = "pending_admin"

\* the SELECT of show_exchange: does the user own a row in an open status
has_open_exchange(ex, user_id) ==
    \E i \in DOMAIN ex : ex[i].user_id = user_id /\ ex[i].status \in OpenStatuses

\* remaining.days alone, without "or 1"
remaining_days_unfloored(delta) ==
    (CooldownDays * MinutesPerDay - delta) \div MinutesPerDay

\* remaining.days or 1, for delta = now - last_completed < 30 days
remaining_days(delta) ==
    LET remaining == CooldownDays * MinutesPerDay - delta
        days == remaining \div MinutesPerDay
    IN  IF days # 0 THEN days ELSE 1

cooldown_active(delta) == delta < CooldownDays * MinutesPerDay

-----------------------------------------------------------------------------
(* handle_user_approval: the administrator approves or rejects a user.     *)
(* k: the verification request whose keyboard is pressed; late: that       *)
(* keyboard is still shown afterwards.                                     *)

set_user_status(us, telegram_id, status) ==
    [u \in DOMAIN us |-> IF u = telegram_id THEN [us[u] EXCEPT !.status = status]
                         ELSE us[u]]

handle_user_approval(s, actor, action, telegram_id, k, late) ==
    LET s0 == IF late THEN s
              ELSE [s EXCEPT !.keyboards = @ \ {<<"verify", telegram_id, k>>}]
    IN  IF actor # Admin
        THEN Send([s EXCEPT !.keyboards = @ \ {<<"verify", telegram_id, k>>}],
                  actor, "access_denied", 0)
        ELSE IF action = "approve_user"
        THEN Send(Send([s0 EXCEPT
                          !.users = set_user_status(@, telegram_id, "approved")],
                       telegram_id, "user_approved", 0),
                  Admin, "user_approved_ack", 0)
        ELSE IF action = "reject_user"
        THEN Send(Send([s0 EXCEPT
                          !.users = set_user_status(@, telegram_id, "rejected")],
                       telegram_id, "user_rejected", 0),
                  Admin, "user_rejected_ack", 0)
        ELSE s

-----------------------------------------------------------------------------
(* show_exchange: a user asks for an exchange                              *)

\* show_exchange without the test of the user's status
show_exchange_for_anyone(s, u, t) ==
    LET last_completed == get_last_completed_exchange_date(s.ex, u)
        exchange_id == Len(s.ex) + 1
    IN  IF last_completed # NoTime /\ cooldown_active(t - last_completed)
        THEN Send(s, u, "cooldown", remaining_days(t - last_completed))
        ELSE IF has_open_exchange(s.ex, u) THEN Send(s, u, "wait", 0)
        ELSE Send(Send([s EXCEPT
                          !.ex = insert_exchange_request(@, u, "", ""),
                          !.keyboards = @ \cup {<<"start", exchange_id>>}],
                       Admin, "exchange_request", exchange_id),
                  u, "request_sent", exchange_id)

show_exchange(s, u, t) ==
    LET status == IF u \in DOMAIN s.users THEN s.users[u].status ELSE "new"
        last_completed == get_last_completed_exchange_date(s.ex, u)
        exchange_id == Len(s.ex) + 1
    IN  IF status # "approved" THEN Send(s, u, "not_approved", 0)
        ELSE IF last_completed # NoTime /\ cooldown_active(t - last_completed)
        THEN Send(s, u, "cooldown", remaining_days(t - last_completed))
        ELSE IF has_open_exchange(s.ex, u) THEN Send(s, u, "wait", 0)
        ELSE Send(Send([s EXCEPT
                          !.ex = insert_exchange_request(@, u, "", ""),
                          !.keyboards = @ \cup {<<"start", exchange_id>>}],
                       Admin, "exchange_request", exchange_id),
                  u, "request_sent", exchange_id)

-----------------------------------------------------------------------------
(* handle_exchange_approval: the administrator presses a button that names *)
(* an exchange.  late: the keyboard of the pressed message is still shown  *)
(* afterwards (edit_message_reply_markup raised BadRequest, which the      *)
(* handler swallows, or further presses were already on their way).        *)

KeyboardOf(action) ==
    IF action \in {"start_ex_approve", "approve_ex", "start_ex_reject", "reject_ex"}
    THEN "start"
    ELSE IF action \in {"confirm_ex_pay", "reject_ex_pay"} THEN "pay" ELSE "send"

remove_markup(s, action, exchange_id, late) ==
    IF late THEN s
    ELSE [s EXCEPT !.keyboards = @ \ {<<KeyboardOf(action), exchange_id>>}]

\* a status guard that also lets a completed request through
payout_may_start_or_done(exchange) ==
    exchange.status \in {"awaiting_payout", "completed"}

\* the two guards of send_ex
payout_may_start(exchange) == exchange.status \in {"awaiting_payout"}
payout_wallet_on_file(exchange) ==
    exchange.user_wallet_address # NULL /\ exchange.user_wallet_address # ""

\* a handler that returns for a missing request without an answer
exchange_not_found_silent(s, actor, action, exchange_id) == s

\* get_exchange found no row: the pressed message is replaced by the
\* not-found text (edit_message_text, which drops its keyboard)
exchange_not_found(s, actor, action, exchange_id) ==
    Send(remove_markup(s, action, exchange_id, FALSE), actor, "not_found", exchange_id)

handle_exchange_approval(s, actor, action, exchange_id, t, late) ==
    IF actor # Admin
    THEN Send(remove_markup(s, action, exchange_id, FALSE), actor, "access_denied", 0)
    ELSE IF exchange_id \notin DOMAIN s.ex
    THEN exchange_not_found(s, actor, action, exchange_id)
    ELSE
    LET exchange == s.ex[exchange_id]
        user_id == exchange.user_id
    IN  IF action \in {"start_ex_approve", "approve_ex"}
        THEN Send(remove_markup(
                    [s EXCEPT
                       !.ex = set_exchange_status(@, exchange_id, "awaiting_wallet",
                                  [NoArgs EXCEPT !.approved_at = t]),
                       !.wallet_flow = Put(@, actor,
                                  [exchange_id |-> exchange_id, user_id |-> user_id,
                                   stage |-> "wait_wallet"])],
                    action, exchange_id, late),
                  Admin, "send_deposit_wallet", exchange_id)
        ELSE IF action = "confirm_ex_pay"
        THEN Send(Send(remove_markup(
                    [s EXCEPT
                       !.ex = set_exchange_status(@, exchange_id,
                                  "awaiting_user_wallet", NoArgs),
                       !.payout_wallet_collect =
                           Put(@, user_id, [exchange_id |-> exchange_id])],
                    action, exchange_id, late),
                  Admin, "payment_confirmed", exchange_id),
                  user_id, "send_payout_wallet", exchange_id)
        ELSE IF action = "reject_ex_pay"
        THEN Send(Send(remove_markup(
                    [s EXCEPT
                       !.ex = set_exchange_status(@, exchange_id, "rejected", NoArgs),
                       !.payout_wallet_collect = Pop(@, user_id)],
                    action, exchange_id, late),
                  user_id, "payment_rejected", exchange_id),
                  Admin, "rejected_after_review", exchange_id)
        ELSE IF action \in {"start_ex_reject", "reject_ex"}
        THEN Send(Send(remove_markup(
                    [s EXCEPT
                       !.ex = set_exchange_status(@, exchange_id, "rejected", NoArgs)],
                    action, exchange_id, late),
                  user_id, "exchange_rejected", exchange_id),
                  Admin, "exchange_rejected_ack", exchange_id)
        ELSE IF action = "send_ex"
        THEN IF ~payout_may_start(exchange)
             THEN Send(s, Admin, "cannot_start_payout", exchange_id)
             ELSE IF ~payout_wallet_on_file(exchange)
             THEN Send(s, Admin, "payout_wallet_missing", exchange_id)
             ELSE Send(remove_markup(
                    [s EXCEPT
                       !.payout_flow = Put(@, actor,
                           [exchange_id |-> exchange_id, user_id |-> user_id,
                            user_wallet |-> exchange.user_wallet_address,
                            stage |-> "wait_hash_or_photo",
                            payout_tx_hash |-> NULL,
                            payout_screenshot_file_id |-> NULL])],
                    action, exchange_id, late),
                  Admin, "send_payout_evidence", exchange_id)
        ELSE s

-----------------------------------------------------------------------------
(* finalize_payout: both payout items are in the administrator's flow      *)

finalize_payout(s, flow, t) ==
    LET payout_tx_hash ==
            IF flow.payout_tx_hash = NULL THEN "" ELSE flow.payout_tx_hash
        payout_screenshot_file_id ==
            IF flow.payout_screenshot_file_id = NULL THEN ""
            ELSE flow.payout_screenshot_file_id
        s1 == Send([s EXCEPT !.ex = set_exchange_status(@, flow.exchange_id,
                        "completed",
                        [NoArgs EXCEPT
                           !.payout_tx_hash = payout_tx_hash,
                           !.payout_screenshot_file_id = payout_screenshot_file_id,
                           !.completed_at = t])],
                   flow.user_id, "exchange_completed", flow.exchange_id)
        s2 == IF payout_screenshot_file_id # ""
              THEN Send(s1, flow.user_id, "payout_screenshot", flow.exchange_id)
              ELSE s1
    IN  Send(s2, Admin, "payout_sent", flow.exchange_id)

-----------------------------------------------------------------------------
(* log_any_message (handler group 1): the registry sub-dialogs, then the   *)
(* plain history entry.  msg has a text or a photo, the other is NULL.     *)

\* job_queue.run_once: one more job, beside those already armed for the same
\* request and the same time (k tells them apart)
run_once(js, exchange_id, user_id, at) ==
    LET taken == {j.k : j \in {x \in js : x.exchange_id = exchange_id /\ x.at = at}}
        k == CHOOSE n \in 0..Cardinality(js) :
                 n \notin taken /\ \A m \in 0..(n - 1) : m \in taken
    IN  [exchange_id |-> exchange_id, user_id |-> user_id, at |-> at, k |-> k]

\* the administrator's text while a wallet_flow entry is held
admin_wallet_step(s, actor, msg, t) ==
    LET wflow == s.wallet_flow[actor]
        exchange_id == wflow.exchange_id
        user_id == wflow.user_id
        expires_at == t + ExpiryMinutes
        s1 == [s EXCEPT
                 !.ex = set_exchange_status(@, exchange_id, "awaiting_transfer",
                            [NoArgs EXCEPT !.expires_at = expires_at,
                                           !.wallet_address = msg.text]),
                 !.jobs = @ \cup {run_once(@, exchange_id, user_id,
                                            t + ExpiryMinutes)}]
        s2 == Send(s1, user_id, "deposit_wallet", exchange_id)
        s3 == [s2 EXCEPT !.exchange_collect =
                   Put(@, user_id, [exchange_id |-> exchange_id,
                                    stage |-> "wait_hash", tx_hash |-> NULL])]
        s4 == Send(Send(s3, user_id, "send_hash", exchange_id),
                   actor, "wallet_sent", exchange_id)
    IN  [s4 EXCEPT !.wallet_flow = Pop(@, actor)]

\* which item of the payout evidence the flow takes from this message
payout_takes_hash(flow, msg) ==
    flow.stage \in {"wait_hash_or_photo", "wait_hash"} /\ msg.text # NULL
payout_takes_photo(flow, msg) ==
    flow.stage \in {"wait_hash_or_photo", "wait_photo"} /\ msg.photo # NULL

\* a payout step that completes the request with the first item it gets
admin_payout_step_on_first_item(s, actor, msg, t) ==
    LET flow == s.payout_flow[actor]
        f1 == IF msg.text # NULL THEN [flow EXCEPT !.payout_tx_hash = msg.text]
              ELSE [flow EXCEPT !.payout_screenshot_file_id = msg.photo]
    IN  [finalize_payout(s, f1, t) EXCEPT !.payout_flow = Pop(@, actor)]

admin_payout_step(s, actor, msg, t) ==
    LET flow == s.payout_flow[actor]
    IN  IF payout_takes_hash(flow, msg)
        THEN LET f1 == [flow EXCEPT !.payout_tx_hash = msg.text]
             IN  IF f1.payout_screenshot_file_id # NULL
                 THEN [finalize_payout(s, f1, t) EXCEPT !.payout_flow = Pop(@, actor)]
                 ELSE Send([s EXCEPT !.payout_flow =
                                Put(@, actor, [f1 EXCEPT !.stage = "wait_photo"])],
                           actor, "got_hash", flow.exchange_id)
        ELSE LET f1 == [flow EXCEPT !.payout_screenshot_file_id = msg.photo]
             IN  IF f1.payout_tx_hash # NULL
                 THEN [finalize_payout(s, f1, t) EXCEPT !.payout_flow = Pop(@, actor)]
                 ELSE Send([s EXCEPT !.payout_flow =
                                Put(@, actor, [f1 EXCEPT !.stage = "wait_hash"])],
                           actor, "screenshot_saved", flow.exchange_id)

\* the user's message while a payout_wallet_collect entry is held
user_payout_wallet_step(s, actor, msg) ==
    IF msg.text = NULL THEN Send(s, actor, "send_wallet_as_text", 0)
    ELSE
    LET exchange_id == s.payout_wallet_collect[actor].exchange_id
        s1 == [s EXCEPT
                 !.ex = set_exchange_status(@, exchange_id, "awaiting_payout",
                            [NoArgs EXCEPT !.user_wallet_address = msg.text]),
                 !.logged = @ + 1,
                 !.marked = TRUE,
                 !.payout_wallet_collect = Pop(@, actor)]
        s2 == Send(s1, actor, "wallet_received", exchange_id)
    IN  Send([s2 EXCEPT !.keyboards = @ \cup {<<"send", exchange_id>>}],
             Admin, "payout_wallet", exchange_id)

\* a dialog that takes whatever arrives at either stage
evidence_stage_takes_any(stage, msg) == stage \in {"wait_hash", "wait_photo"}

\* the stage of the deposit evidence dialog that takes this message
evidence_stage_takes(stage, msg) ==
    \/ stage = "wait_hash" /\ msg.text # NULL
    \/ stage = "wait_photo" /\ msg.photo # NULL

\* UPDATE exchange_requests SET tx_hash, screenshot_file_id, status WHERE id
persist_evidence(ex, exchange_id, tx_hash, screenshot_file_id) ==
    [i \in DOMAIN ex |->
        IF i # exchange_id THEN ex[i]
        ELSE [ex[i] EXCEPT !.tx_hash = tx_hash,
                           !.screenshot_file_id = screenshot_file_id,
                           !.status = "pending_admin"]]

\* the user's message while an exchange_collect entry is held
user_evidence_step(s, actor, msg) ==
    LET uflow == s.exchange_collect[actor]
        exchange_id == uflow.exchange_id
    IN  IF ~evidence_stage_takes(uflow.stage, msg)
        THEN Send(s, actor,
                  IF uflow.stage = "wait_hash" THEN "send_hash_please"
                  ELSE "send_screenshot_please", exchange_id)
        ELSE IF uflow.stage = "wait_hash"
        THEN Send([s EXCEPT !.exchange_collect =
                       Put(@, actor, [uflow EXCEPT !.tx_hash = msg.text,
                                                   !.stage = "wait_photo"])],
                  actor, "hash_received", exchange_id)
        ELSE
        LET tx_hash == IF uflow.tx_hash = NULL THEN "" ELSE uflow.tx_hash
            s1 == [s EXCEPT
                     !.ex = persist_evidence(@, exchange_id, tx_hash, msg.photo),
                     !.exchange_collect = Pop(@, actor)]
            s2 == Send(s1, actor, "payment_submitted", exchange_id)
            s3 == [s2 EXCEPT !.keyboards = @ \cup {<<"pay", exchange_id>>}]
        IN  Send(Send(s3, Admin, "payment_evidence", exchange_id),
                 Admin, "payment_evidence_photo", exchange_id)

\* log_any_message without the already_logged test at its head
log_any_message_not_asking(s, actor, msg, t) ==
    IF actor = Admin /\ actor \in DOMAIN s.wallet_flow /\ msg.text # NULL
    THEN admin_wallet_step(s, actor, msg, t)
    ELSE IF /\ actor = Admin
            /\ actor \in DOMAIN s.payout_flow
            /\ \/ payout_takes_hash(s.payout_flow[actor], msg)
               \/ payout_takes_photo(s.payout_flow[actor], msg)
    THEN admin_payout_step(s, actor, msg, t)
    ELSE IF actor \in DOMAIN s.payout_wallet_collect
    THEN user_payout_wallet_step(s, actor, msg)
    ELSE IF /\ actor \in DOMAIN s.exchange_collect
            /\ s.exchange_collect[actor].stage \in {"wait_hash", "wait_photo"}
    THEN user_evidence_step(s, actor, msg)
    ELSE [s EXCEPT !.logged = @ + 1, !.marked = TRUE]

log_any_message(s, actor, msg, t) ==
    IF s.marked THEN s
    ELSE IF actor = Admin /\ actor \in DOMAIN s.wallet_flow /\ msg.text # NULL
    THEN admin_wallet_step(s, actor, msg, t)
    ELSE IF /\ actor = Admin
            /\ actor \in DOMAIN s.payout_flow
            /\ \/ payout_takes_hash(s.payout_flow[actor], msg)
               \/ payout_takes_photo(s.payout_flow[actor], msg)
    THEN admin_payout_step(s, actor, msg, t)
    ELSE IF actor \in DOMAIN s.payout_wallet_collect
    THEN user_payout_wallet_step(s, actor, msg)
    ELSE IF /\ actor \in DOMAIN s.exchange_collect
            /\ s.exchange_collect[actor].stage \in {"wait_hash", "wait_photo"}
    THEN user_evidence_step(s, actor, msg)
    ELSE [s EXCEPT !.logged = @ + 1, !.marked = TRUE]

-----------------------------------------------------------------------------
(* expire_exchange_request: the job armed when the deposit wallet was sent *)

\* the existence check alone, without the status comparison
request_exists(ex, exchange_id) == exchange_id \in DOMAIN ex

still_awaiting_transfer(ex, exchange_id) ==
    exchange_id \in DOMAIN ex /\ ex[exchange_id].status = "awaiting_transfer"

expire_exchange_request(s, job) ==
    IF ~still_awaiting_transfer(s.ex, job.exchange_id) THEN s
    ELSE Send([s EXCEPT !.ex = set_exchange_status(@, job.exchange_id, "expired",
                                                   NoArgs)],
              job.user_id, "exchange_expired", job.exchange_id)

-----------------------------------------------------------------------------
(* The users table and the verification intake                             *)

\* the texts users send, and the characters of each
KycTexts == {"John", "12345", "t1"}
Chars(text) ==
    CASE text = "John" -> <<"J", "o", "h", "n">>
      [] text = "12345" -> <<"1", "2", "3", "4", "5">>
      [] text = "t1" -> <<"t", "1">>
      [] OTHER -> <<>>

AsciiLetters ==
    {"a", "b", "c", "d", "e", "f", "g", "h", "i", "j", "k", "l", "m", "n", "o",
     "p", "q", "r", "s", "t", "u", "v", "w", "x", "y", "z", "A", "B", "C", "D",
     "E", "F", "G", "H", "I", "J", "K", "L", "M", "N", "O", "P", "Q", "R", "S",
     "T", "U", "V", "W", "X", "Y", "Z"}
AsciiDigits == {"0", "1", "2", "3", "4", "5", "6", "7", "8", "9"}

\* A letter outside ASCII stands for all of them: "e-acute" is the one
\* character U+00E9.
NonAsciiLetters == {"e-acute"}

\* str.isascii and str.isalpha of one character
isascii(ch) == ch \notin NonAsciiLetters
isalpha(ch) == ch \in AsciiLetters \cup NonAsciiLetters

\* a test for letters that leaves out isascii
letter_of_any_script(ch) == isalpha(ch)

\* ch.isascii() and ch.isalpha()
ascii_letter(ch) == isascii(ch) /\ isalpha(ch)

allowed_extra == {" ", "-", "'"}

\* the for loop of is_english_name from character i on: False at the first
\* character that is neither a letter nor allowed, has_letter at the end
RECURSIVE name_loop(_, _, _)
name_loop(cs, i, has_letter) ==
    IF i > Len(cs) THEN has_letter
    ELSE IF ascii_letter(cs[i]) THEN name_loop(cs, i + 1, TRUE)
    ELSE IF cs[i] \in allowed_extra THEN name_loop(cs, i + 1, has_letter)
    ELSE FALSE

\* is_english_name of a text given as its characters
is_english_name_of(cs) == IF cs = <<>> THEN FALSE ELSE name_loop(cs, 1, FALSE)

is_english_name(x) == is_english_name_of(Chars(x))

\* str.isdigit
isdigit(text) ==
    LET cs == Chars(text)
    IN  cs # <<>> /\ \A i \in DOMAIN cs : cs[i] \in AsciiDigits

\* the fields the administrator can ask for again
FieldKeys == {"name", "idnumber", "idcard", "selfie", "email"}

\* the conversation states that collect one field each
IntakeStates == {"NAME", "ID_CARD_PHOTO", "ID_NUMBER", "SELFIE_WITH_ID", "EMAIL"}

\* the row INSERT INTO users makes when only telegram_id is given
DefaultRow ==
    [status |-> "pending", pending_field |-> NULL, name |-> NULL,
     id_number |-> NULL, id_card_file_id |-> NULL,
     selfie_with_id_file_id |-> NULL, email |-> NULL, attempts |-> 1]

\* context.user_data before anything was stored in it
NoData ==
    [name |-> NULL, id_number |-> NULL, id_card_file_id |-> NULL,
     selfie_with_id_file_id |-> NULL, email |-> NULL, pending_payment_hash |-> NULL]

get_user_status(us, telegram_id) ==
    IF telegram_id \in DOMAIN us THEN us[telegram_id].status ELSE "new"

\* UPDATE users SET <field> = ? WHERE telegram_id = ?
update_user_field(us, telegram_id, field, value) ==
    [u \in DOMAIN us |->
        IF u # telegram_id THEN us[u]
        ELSE [f \in DOMAIN us[u] |-> IF f = field THEN value ELSE us[u][f]]]

set_pending_field(us, telegram_id, field) ==
    update_user_field(us, telegram_id, "pending_field", field)

\* INSERT ... ON CONFLICT DO UPDATE SET entry_count = entry_count + 1
increment_entry_count(us, telegram_id) ==
    IF telegram_id \in DOMAIN us THEN us ELSE Put(us, telegram_id, DefaultRow)

\* an upsert that replaces the row and starts the count again
insert_user_counting_anew(us, telegram_id, d) ==
    Put(us, telegram_id,
        [status |-> "pending", pending_field |-> NULL,
         name |-> d.name, id_number |-> d.id_number,
         id_card_file_id |-> d.id_card_file_id,
         selfie_with_id_file_id |-> d.selfie_with_id_file_id,
         email |-> d.email, attempts |-> 1])

\* the upsert of the five fields: status pending; attempts kept for a
\* needs_update row, one more for any other row, 1 for a new row
insert_user(us, telegram_id, d) ==
    LET attempts ==
            IF telegram_id \notin DOMAIN us THEN 1
            ELSE IF us[telegram_id].status = "needs_update"
            THEN us[telegram_id].attempts
            ELSE us[telegram_id].attempts + 1
        pending_field ==
            IF telegram_id \in DOMAIN us THEN us[telegram_id].pending_field
            ELSE NULL
    IN  Put(us, telegram_id,
            [status |-> "pending", pending_field |-> pending_field,
             name |-> d.name, id_number |-> d.id_number,
             id_card_file_id |-> d.id_card_file_id,
             selfie_with_id_file_id |-> d.selfie_with_id_file_id,
             email |-> d.email, attempts |-> attempts])

\* a photo message: what it shows, and the file it carries
PhotoTag(kind, file_id) == kind \o ":" \o file_id

\* the verification requests of the user whose keyboard is still shown
VerificationKeyboards(kb, user_id) ==
    {x \in kb : x[1] = "verify" /\ x[2] = user_id}

\* one text with the verification keyboard, then a photo message for each
\* file reference that is given
send_full_info_to_admin(s, user_id, id_card_file_id, selfie_file_id, prefix) ==
    LET taken == {x[3] : x \in VerificationKeyboards(s.keyboards, user_id)}
        k == CHOOSE n \in 0..Cardinality(taken) :
                 n \notin taken /\ \A m \in 0..(n - 1) : m \in taken
        s1 == Send([s EXCEPT !.keyboards = @ \cup {<<"verify", user_id, k>>}],
                   Admin, prefix, k)
        s2 == IF id_card_file_id \notin {NULL, ""}
              THEN Send(s1, Admin, PhotoTag("id_card", id_card_file_id), k)
              ELSE s1
    IN  IF selfie_file_id \notin {NULL, ""}
        THEN Send(s2, Admin, PhotoTag("selfie", selfie_file_id), k)
        ELSE s2

\* /start: the entry point and the fallback of the conversation
start(s, u) ==
    Send([s EXCEPT !.users = increment_entry_count(@, u),
                   !.logged = @ + 1,
                   !.marked = TRUE,
                   !.conv = [@ EXCEPT ![u] = "SELECT"]],
         u, "main_menu", 0)

\* begin_auth without its first branch: the intake starts for every user
\* whose status is not needs_update
begin_auth_state_without_approved(us, u) ==
    IF get_user_status(us, u) = "needs_update" /\ us[u].pending_field \in FieldKeys
    THEN CASE us[u].pending_field = "name" -> "NAME"
           [] us[u].pending_field = "idnumber" -> "ID_NUMBER"
           [] us[u].pending_field = "idcard" -> "ID_CARD_PHOTO"
           [] us[u].pending_field = "selfie" -> "SELFIE_WITH_ID"
           [] us[u].pending_field = "email" -> "EMAIL"
    ELSE "NAME"

\* the state begin_auth returns
begin_auth_state(us, u) ==
    LET status == get_user_status(us, u)
        pending_field == IF u \in DOMAIN us THEN us[u].pending_field ELSE NULL
    IN  IF status = "approved" THEN "SELECT"
        ELSE IF status = "needs_update"
        THEN CASE pending_field = "name" -> "NAME"
               [] pending_field = "idnumber" -> "ID_NUMBER"
               [] pending_field = "idcard" -> "ID_CARD_PHOTO"
               [] pending_field = "selfie" -> "SELFIE_WITH_ID"
               [] pending_field = "email" -> "EMAIL"
               [] OTHER -> "NAME"
        ELSE "NAME"

\* begin_auth edits the menu message of the user; it changes no record
begin_auth(s, u) ==
    Send(s, u, IF get_user_status(s.users, u) = "approved" THEN "already_verified"
               ELSE "prompt:" \o begin_auth_state(s.users, u), 0)

\* the next state of the conversation of u
goto(s, u, state) == [s EXCEPT !.conv = [@ EXCEPT ![u] = state]]

\* log_user_message and mark_logged for the inbound message
log_and_mark(s) == [s EXCEPT !.logged = @ + 1, !.marked = TRUE]

\* The branch of a collector for a needs_update row: the field, pending_field
\* and status are written; then existing.get(...) raises AttributeError
\* (existing is a sqlite3.Row, which has no get), so nothing is sent, the
\* message is not marked and the conversation keeps its state.
repair_in_collector(s, u, field, value) ==
    [s EXCEPT !.users = set_user_status(
                            set_pending_field(
                                update_user_field(@, u, field, value), u, NULL),
                            u, "pending")]

\* collect_name without the test for English letters
collect_name_any_text(s, u, msg) ==
    IF msg.text = NULL THEN Send(s, u, "invalid_name_text_only", 0)
    ELSE
    LET s1 == [s EXCEPT !.user_data[u].name = msg.text]
    IN  IF get_user_status(s.users, u) = "needs_update"
        THEN repair_in_collector(s1, u, "name", msg.text)
        ELSE goto(Send(log_and_mark(s1), u, "send_id_card", 0), u, "ID_CARD_PHOTO")

collect_name(s, u, msg) ==
    IF msg.text = NULL THEN Send(s, u, "invalid_name_text_only", 0)
    ELSE IF ~is_english_name(msg.text) THEN Send(s, u, "invalid_name_english", 0)
    ELSE
    LET s1 == [s EXCEPT !.user_data[u].name = msg.text]
    IN  IF get_user_status(s.users, u) = "needs_update"
        THEN repair_in_collector(s1, u, "name", msg.text)
        ELSE goto(Send(log_and_mark(s1), u, "send_id_card", 0), u, "ID_CARD_PHOTO")

collect_id_card(s, u, msg) ==
    IF msg.photo = NULL THEN Send(s, u, "invalid_id_card", 0)
    ELSE
    LET s1 == [s EXCEPT !.user_data[u].id_card_file_id = msg.photo]
    IN  IF get_user_status(s.users, u) = "needs_update"
        THEN repair_in_collector(s1, u, "id_card_file_id", msg.photo)
        ELSE goto(Send(log_and_mark(s1), u, "enter_id_number", 0), u, "ID_NUMBER")

collect_id_number(s, u, msg) ==
    IF msg.text = NULL THEN Send(s, u, "invalid_id_number_text", 0)
    ELSE IF ~isdigit(msg.text) THEN Send(s, u, "invalid_id_number_digits", 0)
    ELSE
    LET s1 == [s EXCEPT !.user_data[u].id_number = msg.text]
    IN  IF get_user_status(s.users, u) = "needs_update"
        THEN repair_in_collector(s1, u, "id_number", msg.text)
        ELSE goto(Send(log_and_mark(s1), u, "send_selfie", 0), u, "SELFIE_WITH_ID")

collect_selfie_with_id(s, u, msg) ==
    IF msg.photo = NULL THEN Send(s, u, "invalid_selfie", 0)
    ELSE
    LET s1 == [s EXCEPT !.user_data[u].selfie_with_id_file_id = msg.photo]
    IN  IF get_user_status(s.users, u) = "needs_update"
        THEN repair_in_collector(s1, u, "selfie_with_id_file_id", msg.photo)
        ELSE goto(Send(log_and_mark(s1), u, "enter_email", 0), u, "EMAIL")

\* the four keys collect_email reads besides the email are in user_data
intake_complete(d) ==
    /\ d.name # NULL
    /\ d.id_number # NULL
    /\ d.id_card_file_id # NULL
    /\ d.selfie_with_id_file_id # NULL

\* With a key missing, context.user_data[...] raises KeyError after the
\* message was logged: nothing is upserted and the state is kept.
collect_email(s, u, msg) ==
    IF msg.text = NULL THEN Send(s, u, "invalid_email", 0)
    ELSE
    LET s1 == [s EXCEPT !.user_data[u].email = msg.text]
        d == s1.user_data[u]
    IN  IF get_user_status(s.users, u) = "needs_update"
        THEN repair_in_collector(s1, u, "email", msg.text)
        ELSE IF ~intake_complete(d) THEN log_and_mark(s1)
        ELSE
        LET s2 == [log_and_mark(s1) EXCEPT !.users = insert_user(@, u, d)]
            s3 == send_full_info_to_admin(s2, u, d.id_card_file_id,
                                          d.selfie_with_id_file_id,
                                          "verification_request")
        IN  goto(Send(s3, u, "info_received", 0), u, "NONE")

\* set_pending_field(None), status pending, and the notification, which
\* carries the file only of the field that was a photo
finalize_pending_update(s, u, field_label, file_id) ==
    send_full_info_to_admin(
        [s EXCEPT !.users = set_user_status(set_pending_field(@, u, NULL),
                                            u, "pending")],
        u,
        IF field_label = "ID card photo" THEN file_id ELSE NULL,
        IF field_label = "Selfie with ID" THEN file_id ELSE NULL,
        "verification_update")

\* a repair that writes what context.user_data holds for the field
repair_from_user_data(s, u, field, value, field_label, file_id) ==
    Send(finalize_pending_update(
             [s EXCEPT !.users = update_user_field(@, u, field, s.user_data[u][field])],
             u, field_label, file_id),
         u, "updated:" \o field, 0)

\* the repair of one field, then finalize_pending_update and the reply
repair(s, u, field, value, field_label, file_id) ==
    Send(finalize_pending_update(
             [s EXCEPT !.users = update_user_field(@, u, field, value)],
             u, field_label, file_id),
         u, "updated:" \o field, 0)

\* handle_pending_update (group 0, behind the conversation): the repair of
\* the field named by pending_field, outside the conversation
handle_pending_update(s, u, msg) ==
    IF get_user_status(s.users, u) # "needs_update" THEN s
    ELSE
    LET pending_field == s.users[u].pending_field
    IN  IF pending_field = "name"
        THEN IF msg.text = NULL THEN Send(s, u, "enter_name", 0)
             ELSE IF ~is_english_name(msg.text) THEN Send(s, u, "invalid_name", 0)
             ELSE repair(s, u, "name", msg.text, "Name", "")
        ELSE IF pending_field = "idnumber"
        THEN IF msg.text = NULL THEN Send(s, u, "enter_id_number", 0)
             ELSE IF ~isdigit(msg.text) THEN Send(s, u, "invalid_id_number", 0)
             ELSE repair(s, u, "id_number", msg.text, "ID number", "")
        ELSE IF pending_field = "idcard"
        THEN IF msg.photo = NULL THEN Send(s, u, "resend_id_card", 0)
             ELSE repair(s, u, "id_card_file_id", msg.photo, "ID card photo",
                         msg.photo)
        ELSE IF pending_field = "selfie"
        THEN IF msg.photo = NULL THEN Send(s, u, "resend_selfie", 0)
             ELSE repair(s, u, "selfie_with_id_file_id", msg.photo,
                         "Selfie with ID", msg.photo)
        ELSE IF pending_field = "email"
        THEN IF msg.text = NULL THEN Send(s, u, "enter_email", 0)
             ELSE repair(s, u, "email", msg.text, "Email", "")
        ELSE s

-----------------------------------------------------------------------------
(* The administrator's buttons under a verification request and under a    *)
(* payment, and the payment handler                                        *)

\* handle_field_issue without the comparison of the sender with the
\* administrator
handle_field_issue_unguarded(s, actor, field_key, telegram_id, k, late) ==
    LET s0 == IF late THEN s
              ELSE [s EXCEPT !.keyboards = @ \ {<<"verify", telegram_id, k>>}]
        s1 == [s0 EXCEPT !.users =
                   set_pending_field(set_user_status(@, telegram_id, "needs_update"),
                                     telegram_id, field_key)]
    IN  Send(Send(s1, telegram_id, "field_issue:" \o field_key, 0),
             Admin, "resubmission_requested", 0)

\* handle_field_issue: the administrator asks the user to send one field
\* again.  The refusal replaces the text of the pressed message, which
\* takes its keyboard away.
handle_field_issue(s, actor, field_key, telegram_id, k, late) ==
    IF actor # Admin
    THEN Send([s EXCEPT !.keyboards = @ \ {<<"verify", telegram_id, k>>}],
              actor, "access_denied", 0)
    ELSE handle_field_issue_unguarded(s, actor, field_key, telegram_id, k, late)

insert_payment(ps, user_id, tx_hash, screenshot_file_id) ==
    Append(ps, [user_id |-> user_id, tx_hash |-> tx_hash,
                screenshot_file_id |-> screenshot_file_id, status |-> "pending"])

\* payment_handler: a reference text is kept in user_data until the
\* screenshot arrives; a screenshot without a known reference is refused
payment_handler(s, u, msg) ==
    IF get_user_status(s.users, u) # "approved" THEN s
    ELSE
    LET photo == msg.photo
        incoming_hash == IF msg.text = NULL THEN "" ELSE msg.text
        pending == s.user_data[u].pending_payment_hash
    IN  IF photo = NULL /\ incoming_hash # ""
        THEN Send([s EXCEPT !.user_data[u].pending_payment_hash = incoming_hash],
                  u, "hash_received_send_screenshot", 0)
        ELSE IF photo # NULL /\ incoming_hash = "" /\ pending \in {NULL, ""}
        THEN Send(s, u, "send_hash_first", 0)
        ELSE IF photo = NULL THEN Send(s, u, "send_screenshot", 0)
        ELSE
        LET tx_hash == IF incoming_hash # "" THEN incoming_hash ELSE pending
            n == Len(s.payments) + 1
            s1 == [s EXCEPT !.user_data[u].pending_payment_hash = NULL,
                            !.payments = insert_payment(@, u, tx_hash, photo),
                            !.logged = @ + 1,
                            !.marked = TRUE,
                            !.keyboards = @ \cup {<<"payment", u, n>>}]
        IN  Send(Send(Send(s1, Admin, "new_payment", n),
                      Admin, PhotoTag("payment", photo), n),
                 u, "payment_recorded", 0)

\* UPDATE payments SET status = ? WHERE user_id = ? AND status = 'pending'
set_pending_payments(ps, user_id, status) ==
    [i \in DOMAIN ps |->
        IF ps[i].user_id = user_id /\ ps[i].status = "pending"
        THEN [ps[i] EXCEPT !.status = status] ELSE ps[i]]

\* handle_payment_approval; n: the payment whose message is pressed.  Both
\* the refusal and the acknowledgement replace the text of that message.
handle_payment_approval(s, actor, action, telegram_id, n) ==
    LET s0 == [s EXCEPT !.keyboards = @ \ {<<"payment", telegram_id, n>>}]
    IN  IF actor # Admin THEN Send(s0, actor, "access_denied", 0)
        ELSE IF action = "approve_pay"
        THEN Send(Send([s0 EXCEPT !.payments =
                            set_pending_payments(@, telegram_id, "approved")],
                       telegram_id, "payment_approved", 0),
                  Admin, "payment_approved_ack", n)
        ELSE IF action = "reject_pay"
        THEN Send(Send([s0 EXCEPT !.payments =
                            set_pending_payments(@, telegram_id, "rejected")],
                       telegram_id, "payment_rejected", 0),
                  Admin, "payment_rejected_ack", n)
        ELSE s

-----------------------------------------------------------------------------
(* The dispatch of a message that is no command.  In every group the first *)
(* handler whose filter matches runs, and no other of that group.          *)

\* the state of the conversation of the sender holds a collector
in_intake(s, u) == u \in DOMAIN s.conv /\ s.conv[u] \in IntakeStates

\* the collector of the state the conversation is in
collector(s, u, msg) ==
    CASE s.conv[u] = "NAME" -> collect_name(s, u, msg)
      [] s.conv[u] = "ID_CARD_PHOTO" -> collect_id_card(s, u, msg)
      [] s.conv[u] = "ID_NUMBER" -> collect_id_number(s, u, msg)
      [] s.conv[u] = "SELFIE_WITH_ID" -> collect_selfie_with_id(s, u, msg)
      [] s.conv[u] = "EMAIL" -> collect_email(s, u, msg)
      [] OTHER -> s

\* filters.ALL & ~filters.COMMAND, for a message that is no command
pending_update_filter(msg) == msg = msg

\* filters.PHOTO | (filters.TEXT & ~filters.COMMAND)
payment_filter(msg) == msg.photo # NULL \/ msg.text # NULL

\* group 0: the conversation, then handle_pending_update, then
\* payment_handler
group_0(s, u, msg) ==
    IF in_intake(s, u) THEN collector(s, u, msg)
    ELSE IF pending_update_filter(msg) THEN handle_pending_update(s, u, msg)
    ELSE IF payment_filter(msg) THEN payment_handler(s, u, msg)
    ELSE s

\* group 0, then group 1 (log_any_message) for the same message
process_message(s, u, msg, t) == log_any_message(group_0(s, u, msg), u, msg, t)

-----------------------------------------------------------------------------
(* Outbound messages that are not delivered.  bot.send_message raises when  *)
(* Telegram refuses or cannot be reached; what was committed before the    *)
(* call stays, what the handler would have done after it does not happen   *)
(* unless the handler catches the exception.                               *)

\* the messages the administrator's wallet step sends
WalletStepSends == 3

\* how a send ends: delivered, BadRequest, or another error (Forbidden,
\* TimedOut, NetworkError)
Deliveries == {"delivered", "bad_request", "other_error"}

\* show_exchange when the notification of the administrator ends as given:
\* BadRequest is caught and the user is still told that the request was
\* sent; any other error leaves the handler.
show_exchange_delivering(s, u, t, delivery) ==
    LET status == IF u \in DOMAIN s.users THEN s.users[u].status ELSE "new"
        last_completed == get_last_completed_exchange_date(s.ex, u)
        exchange_id == Len(s.ex) + 1
        s1 == [s EXCEPT !.ex = insert_exchange_request(@, u, "", "")]
    IN  IF \/ delivery = "delivered"
           \/ status # "approved"
           \/ last_completed # NoTime /\ cooldown_active(t - last_completed)
           \/ has_open_exchange(s.ex, u)
        THEN show_exchange(s, u, t)
        ELSE IF delivery = "bad_request"
        THEN Send(s1, u, "request_sent", exchange_id)
        ELSE s1

\* the administrator's wallet text when only the first n of the three
\* messages of the step are delivered; none of the three calls is guarded
admin_wallet_step_delivering(s, actor, msg, t, n) ==
    LET wflow == s.wallet_flow[actor]
        exchange_id == wflow.exchange_id
        user_id == wflow.user_id
        s1 == [s EXCEPT
                 !.ex = set_exchange_status(@, exchange_id, "awaiting_transfer",
                            [NoArgs EXCEPT !.expires_at = t + ExpiryMinutes,
                                           !.wallet_address = msg.text]),
                 !.jobs = @ \cup {run_once(@, exchange_id, user_id,
                                            t + ExpiryMinutes)}]
        s2 == [Send(s1, user_id, "deposit_wallet", exchange_id) EXCEPT
                 !.exchange_collect =
                     Put(@, user_id, [exchange_id |-> exchange_id,
                                      stage |-> "wait_hash", tx_hash |-> NULL])]
        s3 == Send(s2, user_id, "send_hash", exchange_id)
    IN  IF n = 0 THEN s1
        ELSE IF n = 1 THEN s2
        ELSE IF n = 2 THEN s3
        ELSE admin_wallet_step(s, actor, msg, t)

\* log_any_message with that step in it
log_any_message_delivering(s, actor, msg, t, n) ==
    IF ~s.marked /\ actor = Admin /\ actor \in DOMAIN s.wallet_flow /\ msg.text # NULL
    THEN admin_wallet_step_delivering(s, actor, msg, t, n)
    ELSE log_any_message(s, actor, msg, t)

\* an expiry that writes expired and then takes the write back when the
\* user cannot be told
expire_exchange_request_reverting(s, job, delivered) ==
    IF delivered THEN expire_exchange_request(s, job) ELSE s

\* the job when the message to the user is not delivered: every exception
\* of the send is caught and logged
expire_exchange_request_delivering(s, job, delivered) ==
    IF delivered \/ ~still_awaiting_transfer(s.ex, job.exchange_id)
    THEN expire_exchange_request(s, job)
    ELSE [s EXCEPT !.ex = set_exchange_status(@, job.exchange_id, "expired", NoArgs)]

-----------------------------------------------------------------------------
(* The program state as one record, and back.  sent collects the messages  *)
(* a handler sends, logged counts the user_messages rows it writes for the  *)
(* inbound message and marked tells that mark_logged was called for it;    *)
(* all three start empty for every update.                                 *)

Cur ==
    [ex |-> exchange_requests, users |-> users, wallet_flow |-> wallet_flow,
     payout_flow |-> payout_flow, exchange_collect |-> exchange_collect,
     payout_wallet_collect |-> payout_wallet_collect, jobs |-> jobs,
     keyboards |-> keyboards, conv |-> conv, user_data |-> user_data,
     payments |-> payments, sent |-> {}, logged |-> 0, marked |-> FALSE]

Apply(s) ==
    /\ exchange_requests' = s.ex
    /\ users' = s.users
    /\ wallet_flow' = s.wallet_flow
    /\ payout_flow' = s.payout_flow
    /\ exchange_collect' = s.exchange_collect
    /\ payout_wallet_collect' = s.payout_wallet_collect
    /\ jobs' = s.jobs
    /\ keyboards' = s.keyboards
    /\ conv' = s.conv
    /\ user_data' = s.user_data
    /\ payments' = s.payments
    /\ expiring' = expiring
    /\ UNCHANGED <<name_text, verdict>>

TextMsg(x) == [text |-> x, photo |-> NULL]
PhotoMsg(x) == [text |-> NULL, photo |-> x]
Messages == {TextMsg(x) : x \in Texts} \cup {PhotoMsg(x) : x \in Photos}

ExchangeActions ==
    {"start_ex_approve", "start_ex_reject", "confirm_ex_pay", "reject_ex_pay",
     "send_ex"}

-----------------------------------------------------------------------------
(* Updates and jobs                                                        *)

\* The user presses Exchange.  In state SELECT the conversation handler
\* (group 0) runs show_exchange and the global handler (group 2) runs it
\* again for the same update; outside a conversation only group 2 runs it.
\* cap: the rows the table may hold afterwards.
ShowExchange(u, cap) ==
    LET once == show_exchange(Cur, u, now)
        s == IF conv[u] = "SELECT" THEN show_exchange(once, u, now) ELSE once
    IN  /\ Len(s.ex) <= cap
        /\ Apply(s)
        /\ UNCHANGED <<now, ticks, stale>>

\* The administrator presses a button of a keyboard that is still shown.
AdminButton(action, exchange_id, late) ==
    /\ <<KeyboardOf(action), exchange_id>> \in keyboards
    /\ late => stale < MaxStale
    /\ stale' = IF late THEN stale + 1 ELSE stale
    /\ Apply(handle_exchange_approval(Cur, Admin, action, exchange_id, now, late))
    /\ UNCHANGED <<now, ticks>>

\* The administrator presses Approve or Reject under a verification request
\* of the user that is still shown.
UserApproval(action, u, k, late) ==
    /\ <<"verify", u, k>> \in keyboards
    /\ late => stale < MaxStale
    /\ stale' = IF late THEN stale + 1 ELSE stale
    /\ Apply(handle_user_approval(Cur, Admin, action, u, k, late))
    /\ UNCHANGED <<now, ticks>>

\* A message that is no command: group 0, then group 1.
Message(actor, msg) ==
    /\ Apply(process_message(Cur, actor, msg, now))
    /\ UNCHANGED <<now, ticks, stale>>

\* The job queue runs a job that is due; a one-shot job runs once.
JobFires(job) ==
    /\ job \in jobs
    /\ job.at <= now
    /\ Apply(expire_exchange_request([Cur EXCEPT !.jobs = @ \ {job}], job))
    /\ UNCHANGED <<now, ticks, stale>>

\* The handlers read the clock only to compare it with the time of an armed
\* job and with the completed_at of a completed exchange.
TimeMatters ==
    \/ \E job \in jobs : job.at > now
    \/ \E i \in DOMAIN exchange_requests :
          /\ exchange_requests[i].status = "completed"
          /\ exchange_requests[i].completed_at # NoTime
          /\ cooldown_active(now - exchange_requests[i].completed_at)

\* Time passes, while a job is waiting or a cooldown is running.
Tick(d) ==
    /\ ticks < MaxTicks
    /\ TimeMatters
    /\ now' = now + d
    /\ ticks' = ticks + 1
    /\ Apply(Cur)
    /\ UNCHANGED stale

\* the users row and the user_data of a user who went through the intake
\* once and was approved
VerifiedRow ==
    [status |-> "approved", pending_field |-> NULL, name |-> "John",
     id_number |-> "12345", id_card_file_id |-> "p1",
     selfie_with_id_file_id |-> "p1", email |-> "t1", attempts |-> 2]
SubmittedData ==
    [name |-> "John", id_number |-> "12345", id_card_file_id |-> "p1",
     selfie_with_id_file_id |-> "p1", email |-> "t1", pending_payment_hash |-> NULL]

\* Both users have passed verification; u1 submitted its details twice, so
\* one verification request with its keyboard is still on the
\* administrator's screen.  u1 opened the menu with /start (state SELECT),
\* the conversation of u2 has ended.
Init ==
    /\ exchange_requests = <<>>
    /\ users = [u \in Users |-> IF u = "u1" THEN [VerifiedRow EXCEPT !.attempts = 3]
                                ELSE VerifiedRow]
    /\ wallet_flow = EmptyDict
    /\ payout_flow = EmptyDict
    /\ exchange_collect = EmptyDict
    /\ payout_wallet_collect = EmptyDict
    /\ jobs = {}
    /\ keyboards = {<<"verify", "u1", 0>>}
    /\ conv = [u \in Users |-> IF u = "u1" THEN "SELECT" ELSE "NONE"]
    /\ user_data = [u \in Users |-> SubmittedData]
    /\ payments = <<>>
    /\ now = 0
    /\ ticks = 0
    /\ stale = 0
    /\ expiring = {}
    /\ name_text = <<>>
    /\ verdict = "unchecked"

Next ==
    \/ \E u \in Users : ShowExchange(u, MaxExStale)
    \/ \E a \in ExchangeActions, id \in 1..MaxEx, late \in BOOLEAN :
          AdminButton(a, id, late)
    \/ \E a \in {"approve_user", "reject_user"}, u \in Users,
          k \in 0..MaxSubmissions, late \in BOOLEAN :
          UserApproval(a, u, k, late)
    \/ \E actor \in Users \cup {Admin}, msg \in Messages : Message(actor, msg)
    \/ \E job \in jobs : JobFires(job)
    \/ \E d \in TickSteps : Tick(d)

Spec == Init /\ [][Next]_vars

\* Every press removes its keyboard: no button is pressed twice.
NextStrict ==
    \/ \E u \in Users : ShowExchange(u, MaxEx)
    \/ \E a \in ExchangeActions, id \in 1..MaxEx : AdminButton(a, id, FALSE)
    \/ \E a \in {"approve_user", "reject_user"}, u \in Users,
          k \in 0..MaxSubmissions :
          UserApproval(a, u, k, FALSE)
    \/ \E actor \in Users \cup {Admin}, msg \in Messages : Message(actor, msg)
    \/ \E job \in jobs : JobFires(job)
    \/ \E d \in TickSteps : Tick(d)

SpecStrict == Init /\ [][NextStrict]_vars

-----------------------------------------------------------------------------
(* The verification of users: /start, the Verify button, the messages of    *)
(* the intake and of a repair, and the administrator's buttons under a     *)
(* verification request.  Time stands still here.                          *)

KycMessages == {TextMsg(x) : x \in KycTexts} \cup {PhotoMsg(x) : x \in Photos}

\* the caps on the verification requests shown and on the attempts counted
WithinKycBounds(s) ==
    /\ \A x \in s.keyboards : x[1] = "verify" => x[3] < MaxSubmissions
    /\ \A u \in DOMAIN s.users : s.users[u].attempts <= MaxAttempts

\* /start, in any state of the conversation
Start(u) ==
    /\ Apply(start(Cur, u))
    /\ UNCHANGED <<now, ticks, stale>>

\* The Verify button of a menu.  In state SELECT the conversation runs
\* begin_auth and takes the state it returns; the global handler (group 2)
\* runs begin_auth once more in every state and drops what it returns.
press_begin_auth(s, u) ==
    IF s.conv[u] = "SELECT"
    THEN begin_auth(goto(begin_auth(s, u), u, begin_auth_state(s.users, u)), u)
    ELSE begin_auth(s, u)

BeginAuth(u) ==
    /\ Apply(press_begin_auth(Cur, u))
    /\ UNCHANGED <<now, ticks, stale>>

\* a user's message that is no command
KycMessage(u, msg) ==
    LET s == process_message(Cur, u, msg, now)
    IN  /\ WithinKycBounds(s)
        /\ Apply(s)
        /\ UNCHANGED <<now, ticks, stale>>

\* The administrator presses one of the five issue buttons under a
\* verification request that is still shown.
FieldIssue(field_key, u, k) ==
    /\ <<"verify", u, k>> \in keyboards
    /\ Apply(handle_field_issue(Cur, Admin, field_key, u, k, FALSE))
    /\ UNCHANGED <<now, ticks, stale>>

\* Somebody else presses a button under a verification request.
ForeignPress(actor, action, u, k) ==
    /\ <<"verify", u, k>> \in keyboards
    /\ Apply(IF action \in FieldKeys
             THEN handle_field_issue(Cur, actor, action, u, k, FALSE)
             ELSE handle_user_approval(Cur, actor, action, u, k, FALSE))
    /\ UNCHANGED <<now, ticks, stale>>

\* u1 has never written to the bot.  u2 went through the intake twice and
\* was approved on the second request, so the first request is still on the
\* administrator's screen; u2 then asked for an exchange, the administrator
\* accepted it and sent the deposit wallet, and u2 is asked for the hash.
KycBase ==
    [ex |-> <<>>, users |-> Put(EmptyDict, "u2", [VerifiedRow EXCEPT !.attempts = 3]),
     wallet_flow |-> EmptyDict, payout_flow |-> EmptyDict,
     exchange_collect |-> EmptyDict, payout_wallet_collect |-> EmptyDict,
     jobs |-> {}, keyboards |-> {<<"verify", "u2", 0>>},
     conv |-> [u \in Users |-> "NONE"],
     user_data |-> [u \in Users |-> IF u = "u2" THEN SubmittedData ELSE NoData],
     payments |-> <<>>, sent |-> {}, logged |-> 0, marked |-> FALSE]

KycSnapshot ==
    admin_wallet_step(
        handle_exchange_approval(show_exchange(KycBase, "u2", 0),
                                 Admin, "start_ex_approve", 1, 0, FALSE),
        Admin, TextMsg("t1"), 0)

KycInit ==
    /\ exchange_requests = KycSnapshot.ex
    /\ users = KycSnapshot.users
    /\ wallet_flow = KycSnapshot.wallet_flow
    /\ payout_flow = KycSnapshot.payout_flow
    /\ exchange_collect = KycSnapshot.exchange_collect
    /\ payout_wallet_collect = KycSnapshot.payout_wallet_collect
    /\ jobs = KycSnapshot.jobs
    /\ keyboards = KycSnapshot.keyboards
    /\ conv = KycSnapshot.conv
    /\ user_data = KycSnapshot.user_data
    /\ payments = KycSnapshot.payments
    /\ now = 0
    /\ ticks = 0
    /\ stale = 0
    /\ expiring = {}
    /\ name_text = <<>>
    /\ verdict = "unchecked"

\* the updates that concern the verification of the users in U
KycStep(U) ==
    \/ \E u \in U : Start(u)
    \/ \E u \in U : BeginAuth(u)
    \/ \E u \in U, msg \in KycMessages : KycMessage(u, msg)
    \/ \E a \in {"approve_user", "reject_user"}, u \in U, k \in 0..MaxSubmissions :
          UserApproval(a, u, k, FALSE)
    \/ \E f \in FieldKeys, u \in U, k \in 0..MaxSubmissions : FieldIssue(f, u, k)
    \/ \E actor \in Users, a \in FieldKeys \cup {"approve_user", "reject_user"},
          u \in U, k \in 0..MaxSubmissions :
          ForeignPress(actor, a, u, k)

\* the newcomer is verified
KycNext == KycStep({"u1"})

SpecKyc == KycInit /\ [][KycNext]_vars

\* the user who is in the middle of an exchange is verified again
KycNextInExchange == KycStep({"u2"})

SpecKycInExchange == KycInit /\ [][KycNextInExchange]_vars

-----------------------------------------------------------------------------
(* The name validator on its own: any text of up to MaxLen characters is    *)
(* handed to is_english_name.                                              *)

MaxLen == 3

\* one character of each kind: lower and upper case letter, a letter outside
\* ASCII, the three allowed marks, a digit and a tab
NameChars == {"a", "Z", "e-acute", " ", "-", "'", "1", "\t"}

RECURSIVE TextsOfLength(_)
TextsOfLength(n) ==
    IF n = 0 THEN {<<>>}
    ELSE {Append(cs, ch) : cs \in TextsOfLength(n - 1), ch \in NameChars}

NameInputs == UNION {TextsOfLength(n) : n \in 0..MaxLen}

NameInit ==
    /\ name_text \in NameInputs
    /\ verdict = "unchecked"
    /\ exchange_requests = <<>>
    /\ users = EmptyDict
    /\ wallet_flow = EmptyDict
    /\ payout_flow = EmptyDict
    /\ exchange_collect = EmptyDict
    /\ payout_wallet_collect = EmptyDict
    /\ jobs = {}
    /\ keyboards = {}
    /\ conv = [u \in Users |-> "NONE"]
    /\ user_data = [u \in Users |-> NoData]
    /\ payments = <<>>
    /\ now = 0
    /\ ticks = 0
    /\ stale = 0
    /\ expiring = {}

\* is_english_name is called with the text
Validate ==
    /\ verdict = "unchecked"
    /\ verdict' = IF is_english_name_of(name_text) THEN "accepted" ELSE "rejected"
    /\ UNCHANGED <<exchange_requests, users, wallet_flow, payout_flow,
                   exchange_collect, payout_wallet_collect, jobs, keyboards, conv,
                   user_data, payments, now, ticks, stale, expiring, name_text>>

NextName == Validate

SpecName == NameInit /\ [][NextName]_vars

-----------------------------------------------------------------------------
(* A restart of the process.  The application is built without a           *)
(* persistence, so bot_data, user_data, chat_data, the conversations and    *)
(* the job queue start empty; the tables are in the database file and the   *)
(* messages with their keyboards are in the chats.                          *)

restart(s) ==
    [s EXCEPT !.wallet_flow = EmptyDict,
              !.payout_flow = EmptyDict,
              !.exchange_collect = EmptyDict,
              !.payout_wallet_collect = EmptyDict,
              !.jobs = {},
              !.conv = [u \in Users |-> "NONE"],
              !.user_data = [u \in Users |-> NoData]]

\* The process is stopped and started again, when something is in memory.
Restart ==
    /\ restart(Cur) # Cur
    /\ Apply(restart(Cur))
    /\ UNCHANGED <<now, ticks, stale>>

NextRestart == KycStep({"u2"}) \/ Restart

SpecRestart == KycInit /\ [][NextRestart]_vars

-----------------------------------------------------------------------------
(* The exchange with messages that may fail to be delivered                *)

\* The user presses Exchange, in or outside state SELECT as in ShowExchange;
\* the notification of the administrator ends as given each time.
ShowExchangeDelivering(u, cap, delivery) ==
    LET once == show_exchange_delivering(Cur, u, now, delivery)
        s == IF conv[u] = "SELECT"
             THEN show_exchange_delivering(once, u, now, delivery)
             ELSE once
    IN  /\ Len(s.ex) <= cap
        /\ Apply(s)
        /\ UNCHANGED <<now, ticks, stale>>

\* A message that is no command; n of the messages of the administrator's
\* wallet step are delivered.
MessageDelivering(actor, msg, n) ==
    LET s == log_any_message_delivering(group_0(Cur, actor, msg), actor, msg, now, n)
    IN  /\ Cardinality(s.jobs) <= MaxJobs
        /\ Apply(s)
        /\ UNCHANGED <<now, ticks, stale>>

\* A due job runs; its message to the user is delivered or not.
JobFiresDelivering(job, delivered) ==
    /\ job \in jobs
    /\ job.at <= now
    /\ Apply(expire_exchange_request_delivering([Cur EXCEPT !.jobs = @ \ {job}],
                                                job, delivered))
    /\ UNCHANGED <<now, ticks, stale>>

NextDelivery ==
    \/ \E u \in Users, delivery \in Deliveries :
          ShowExchangeDelivering(u, MaxExStale, delivery)
    \/ \E a \in ExchangeActions, id \in 1..MaxEx : AdminButton(a, id, FALSE)
    \/ \E actor \in Users \cup {Admin}, msg \in Messages, n \in 0..WalletStepSends :
          MessageDelivering(actor, msg, n)
    \/ \E job \in jobs, delivered \in BOOLEAN : JobFiresDelivering(job, delivered)
    \/ \E d \in TickSteps : Tick(d)

SpecDelivery == Init /\ [][NextDelivery]_vars

-----------------------------------------------------------------------------
(* The job as the event loop runs it: expire_exchange_request awaits        *)
(* get_exchange, compares the status, and awaits set_exchange_status.  The  *)
(* job is a task of its own, so the handler of an update may run between    *)
(* the two awaits.                                                          *)

\* A due job starts: it leaves the queue, reads the row and returns unless
\* the status is awaiting_transfer.
ExpireReads(job) ==
    /\ job \in jobs
    /\ job.at <= now
    /\ jobs' = jobs \ {job}
    /\ expiring' = IF still_awaiting_transfer(exchange_requests, job.exchange_id)
                   THEN expiring \cup {job} ELSE expiring
    /\ UNCHANGED <<exchange_requests, users, wallet_flow, payout_flow,
                   exchange_collect, payout_wallet_collect, keyboards, conv,
                   user_data, payments, now, ticks, stale, name_text, verdict>>

\* The job goes on after the comparison: set_exchange_status(expired).
ExpireWrites(job) ==
    /\ job \in expiring
    /\ exchange_requests' =
           set_exchange_status(exchange_requests, job.exchange_id, "expired", NoArgs)
    /\ expiring' = expiring \ {job}
    /\ UNCHANGED <<users, wallet_flow, payout_flow, exchange_collect,
                   payout_wallet_collect, jobs, keyboards, conv, user_data,
                   payments, now, ticks, stale, name_text, verdict>>

NextTimer ==
    \/ \E u \in Users : ShowExchange(u, MaxEx)
    \/ \E a \in ExchangeActions, id \in 1..MaxEx : AdminButton(a, id, FALSE)
    \/ \E actor \in Users \cup {Admin}, msg \in Messages : Message(actor, msg)
    \/ \E job \in jobs : ExpireReads(job)
    \/ \E job \in expiring : ExpireWrites(job)
    \/ \E d \in TickSteps : Tick(d)

SpecTimer == Init /\ [][NextTimer]_vars

-----------------------------------------------------------------------------
(* Properties.  A handler is applied to the current state where a property  *)
(* speaks of what one run of the handler does, messages it sends included.  *)

\* the user owns a request in a status that is not terminal
OwnsOpenRequest(u) ==
    \E i \in DOMAIN exchange_requests :
        /\ exchange_requests[i].user_id = u
        /\ exchange_requests[i].status \notin Terminal

\* the completed_at values of the user's completed requests
CompletedTimes(u) ==
    {exchange_requests[i].completed_at : i \in
        {j \in DOMAIN exchange_requests :
            /\ exchange_requests[j].user_id = u
            /\ exchange_requests[j].status = "completed"
            /\ exchange_requests[j].completed_at # NoTime}}

\* the user's most recent completion is less than 30 days old
InCooldown(u) ==
    \E t0 \in CompletedTimes(u) :
        /\ \A t1 \in CompletedTimes(u) : t1 <= t0
        /\ now < t0 + CooldownDays * MinutesPerDay

\* the part of the program state a handler can change, without its messages
Data(s) == [s EXCEPT !.sent = {}, !.logged = 0, !.marked = FALSE]

\* C1: when the expiry job of a request runs while the request is in a
\* status other than awaiting_transfer (or does not exist), the run changes
\* no field of any record or registry and sends no message.
C1_ExpiryIsNoOpOutsideAwaitingTransfer ==
    \A job \in jobs :
        LET before == [Cur EXCEPT !.jobs = @ \ {job}]
        IN  (\/ job.exchange_id \notin DOMAIN exchange_requests
             \/ exchange_requests[job.exchange_id].status # "awaiting_transfer")
            => expire_exchange_request(before, job) = before

\* a job is due and its request has left awaiting_transfer
C1_Witness ==
    \E job \in jobs :
        /\ job.at <= now
        /\ exchange_requests[job.exchange_id].status
               \in {"pending_admin", "rejected", "completed", "awaiting_payout"}

\* C2 as stated: a user who owns a request in a non-terminal status and asks
\* for an exchange is answered with the wait message, and no row is inserted.
C2_SecondRequestGetsWaitMessage ==
    \A u \in Users :
        OwnsOpenRequest(u) =>
            LET after == show_exchange(Cur, u, now)
            IN  /\ after.ex = exchange_requests
                /\ after.sent = {Msg(u, "wait", 0)}

\* C2, amended: such a request never inserts a row and changes nothing; the
\* user is answered with exactly one refusal, which is the not-approved
\* message if the user is not approved, else the cooldown message if a
\* cooldown is running, else the wait message.
C2_SecondRequestRefused ==
    \A u \in Users :
        OwnsOpenRequest(u) =>
            LET after == show_exchange(Cur, u, now)
            IN  /\ Data(after) = Cur
                /\ \E m \in after.sent :
                      /\ after.sent = {m}
                      /\ m.to = u
                      /\ m.tag = IF users[u].status # "approved" THEN "not_approved"
                                 ELSE IF InCooldown(u) THEN "cooldown"
                                 ELSE "wait"
                /\ Data(show_exchange(after, u, now)) = Cur

\* an approved user outside a cooldown owns an open request and is told to wait
C2_Witness ==
    \E u \in Users :
        /\ OwnsOpenRequest(u)
        /\ show_exchange(Cur, u, now).sent = {Msg(u, "wait", 0)}

\* a user who owns an open request is refused with another message
C2_WitnessOtherRefusal ==
    \E u \in Users :
        /\ OwnsOpenRequest(u)
        /\ show_exchange(Cur, u, now).sent = {Msg(u, "not_approved", 0)}

\* C3: in every reachable state every user owns at most one request in a
\* non-terminal status.
C3_AtMostOneOpenRequest ==
    \A u \in Users :
        Cardinality({i \in DOMAIN exchange_requests :
                        /\ exchange_requests[i].user_id = u
                        /\ exchange_requests[i].status \notin Terminal}) <= 1

\* C4: once the status of a request is completed, rejected or expired, no
\* step changes it.
C4_TerminalStatusIsFinal ==
    [][\A i \in DOMAIN exchange_requests :
          exchange_requests[i].status \in Terminal
              => exchange_requests'[i].status = exchange_requests[i].status]_vars

\* the (old, new) pairs of the status diagram
ListedTransitions ==
    {<<"pending_admin", "awaiting_wallet">>, <<"pending_admin", "rejected">>,
     <<"pending_admin", "awaiting_user_wallet">>,
     <<"awaiting_wallet", "awaiting_transfer">>,
     <<"awaiting_transfer", "pending_admin">>, <<"awaiting_transfer", "expired">>,
     <<"awaiting_user_wallet", "awaiting_payout">>,
     <<"awaiting_payout", "completed">>}

\* C5: every change of a request's status is a listed transition, and a new
\* request starts in pending_admin.
C5_OnlyListedTransitions ==
    [][/\ \A i \in DOMAIN exchange_requests :
             exchange_requests'[i].status # exchange_requests[i].status
                 => <<exchange_requests[i].status, exchange_requests'[i].status>>
                        \in ListedTransitions
       /\ \A i \in DOMAIN exchange_requests' \ DOMAIN exchange_requests :
             exchange_requests'[i].status = "pending_admin"]_vars

\* the two orders in which a sender can send one text and one photo
TextThenPhoto(s, actor, t) ==
    log_any_message(log_any_message(s, actor, TextMsg("t1"), t),
                    actor, PhotoMsg("p1"), t)
PhotoThenText(s, actor, t) ==
    log_any_message(log_any_message(s, actor, PhotoMsg("p1"), t),
                    actor, TextMsg("t1"), t)

\* the user holds an evidence entry for a request that awaits the transfer
CollectsEvidence(u) ==
    /\ u \in DOMAIN exchange_collect
    /\ exchange_requests[exchange_collect[u].exchange_id].status = "awaiting_transfer"

\* the deposit evidence is on the request, which waits for the administrator
EvidencePersisted(s, u, exchange_id) ==
    /\ s.ex[exchange_id].status = "pending_admin"
    /\ s.ex[exchange_id].tx_hash = "t1"
    /\ s.ex[exchange_id].screenshot_file_id = "p1"
    /\ u \notin DOMAIN s.exchange_collect

PayoutPersisted(s, exchange_id) ==
    /\ s.ex[exchange_id].status = "completed"
    /\ s.ex[exchange_id].payout_tx_hash = "t1"
    /\ s.ex[exchange_id].payout_screenshot_file_id = "p1"
    /\ Admin \notin DOMAIN s.payout_flow

\* C7: after send_ex for a request in awaiting_payout, the administrator
\* sending the payout hash then the screenshot, or the screenshot then the
\* hash, both end with the request completed, the same payout_tx_hash and
\* payout screenshot persisted and the payout flow entry removed.
C7_PayoutInEitherOrder ==
    (/\ Admin \in DOMAIN payout_flow
     /\ payout_flow[Admin].stage = "wait_hash_or_photo"
     /\ exchange_requests[payout_flow[Admin].exchange_id].status = "awaiting_payout")
    => LET exchange_id == payout_flow[Admin].exchange_id
       IN  /\ PayoutPersisted(TextThenPhoto(Cur, Admin, now), exchange_id)
           /\ PayoutPersisted(PhotoThenText(Cur, Admin, now), exchange_id)

\* C8: while the user's most recent completion is less than 30 days old, a
\* request by the user creates no row and changes nothing; the cooldown
\* message, sent if the user is approved, carries a whole number of days
\* that is at least 1: the whole days that remain, or 1 if less than one
\* full day remains.
C8_CooldownRefusesWithAtLeastOneDay ==
    \A u \in Users :
        InCooldown(u) =>
            LET t0 == CHOOSE x \in CompletedTimes(u) :
                          \A y \in CompletedTimes(u) : y <= x
                remaining == t0 + CooldownDays * MinutesPerDay - now
                after == show_exchange(Cur, u, now)
            IN  /\ Data(after) = Cur
                /\ \A m \in after.sent :
                      m.tag = "cooldown" =>
                          /\ m.n \in Nat
                          /\ m.n >= 1
                          /\ remaining < MinutesPerDay => m.n = 1
                          /\ remaining >= MinutesPerDay =>
                                 /\ m.n * MinutesPerDay <= remaining
                                 /\ remaining < (m.n + 1) * MinutesPerDay
                /\ users[u].status = "approved" =>
                       \E m \in after.sent : after.sent = {m} /\ m.tag = "cooldown"

\* an approved user asks when less than one full day of the cooldown remains
C8_Witness ==
    \E u \in Users :
        /\ InCooldown(u)
        /\ \E t0 \in CompletedTimes(u) :
              /\ t0 + CooldownDays * MinutesPerDay - now < MinutesPerDay
              /\ \A t1 \in CompletedTimes(u) : t1 <= t0
        /\ show_exchange(Cur, u, now).sent = {Msg(u, "cooldown", 1)}

\* C9: send_ex opens a payout flow entry only when the request is in
\* awaiting_payout with a payout wallet on file; in every other case it is
\* refused with one message to the administrator and changes no registry,
\* no record and no keyboard.
C9_SendExIsGuarded ==
    \A exchange_id \in DOMAIN exchange_requests : \A late \in BOOLEAN :
        LET exchange == exchange_requests[exchange_id]
            after == handle_exchange_approval(Cur, Admin, "send_ex", exchange_id,
                                              now, late)
        IN  IF /\ exchange.status = "awaiting_payout"
               /\ exchange.user_wallet_address \notin {NULL, ""}
            THEN /\ Admin \in DOMAIN after.payout_flow
                 /\ after.payout_flow[Admin].exchange_id = exchange_id
                 /\ after.payout_flow[Admin].stage = "wait_hash_or_photo"
                 /\ after.ex = exchange_requests
            ELSE /\ Data(after) = Cur
                 /\ \E m \in after.sent :
                       /\ after.sent = {m}
                       /\ m.to = Admin
                       /\ m.tag \in {"cannot_start_payout", "payout_wallet_missing"}

\* the Send payment keyboard of a request that is no longer in
\* awaiting_payout can still be pressed
C9_Witness ==
    \E exchange_id \in DOMAIN exchange_requests :
        /\ <<"send", exchange_id>> \in keyboards
        /\ exchange_requests[exchange_id].status # "awaiting_payout"

\* C10: the step in which the administrator supplies the deposit wallet
\* leaves the request in awaiting_transfer with expires_at 30 minutes after
\* that moment and arms one job for the request, due at that time.
C10_WalletSupplyStartsTheWindow ==
    [][(Admin \in DOMAIN wallet_flow /\ Admin \notin DOMAIN wallet_flow') =>
          LET exchange_id == wallet_flow[Admin].exchange_id
          IN  /\ exchange_requests'[exchange_id].status = "awaiting_transfer"
              /\ exchange_requests'[exchange_id].expires_at = now + ExpiryMinutes
              /\ \E job \in jobs' \ jobs :
                    /\ jobs' = jobs \cup {job}
                    /\ job.exchange_id = exchange_id
                    /\ job.at = now + ExpiryMinutes]_vars

-----------------------------------------------------------------------------
(* Properties of the verification of users                                 *)

\* the messages of one run that tell the administrator of a verification
\* request or update
VerificationNotices(sent) ==
    {m \in sent : m.to = Admin /\ m.tag \in {"verification_request",
                                             "verification_update"}}

\* the next update finds the marks of the one before it gone
NextUpdate(s) == [s EXCEPT !.marked = FALSE]

\* The user sends a name, an ID card photo, an ID number and a selfie, the
\* administrator may then press an issue button under an earlier request of
\* the user, and the user sends the email.
FullSubmission(s, u, email, pressed, field_key, k) ==
    LET s1 == process_message(s, u, TextMsg("John"), now)
        s2 == process_message(NextUpdate(s1), u, PhotoMsg("p1"), now)
        s3 == process_message(NextUpdate(s2), u, TextMsg("12345"), now)
        s4 == process_message(NextUpdate(s3), u, PhotoMsg("p1"), now)
        s5 == IF pressed
              THEN handle_field_issue(s4, Admin, field_key, u, k, FALSE)
              ELSE s4
    IN  process_message(NextUpdate(s5), u, TextMsg(email), now)

\* what the submission has to leave behind
SubmissionStored(s, after, u, email) ==
    LET d == [name |-> "John", id_number |-> "12345", id_card_file_id |-> "p1",
              selfie_with_id_file_id |-> "p1", email |-> email]
    IN  /\ after.users = insert_user(s.users, u, d)
        /\ after.users[u].status = "pending"
        /\ \E m \in VerificationNotices(after.sent) :
              /\ VerificationNotices(after.sent) = {m}
              /\ m.tag = "verification_request"
              /\ Msg(Admin, PhotoTag("id_card", "p1"), m.n) \in after.sent
              /\ Msg(Admin, PhotoTag("selfie", "p1"), m.n) \in after.sent

\* the intake of the user starts at the name, for a full submission
AtFirstField(u) ==
    conv[u] = "NAME" /\ get_user_status(users, u) # "needs_update"

\* C11: a user who sends a valid name, ID card photo, ID number, selfie and
\* email in this order has the User record upserted once, with the five
\* fields and status pending, and the administrator receives exactly one
\* notification, with the ID card photo and the selfie; whatever the
\* administrator does meanwhile.
C11_SubmissionUpsertsAndNotifiesOnce ==
    \A u \in Users, x \in KycTexts, pressed \in BOOLEAN, f \in FieldKeys,
       k \in 0..MaxSubmissions :
        (AtFirstField(u) /\ (pressed => <<"verify", u, k>> \in keyboards)) =>
            SubmissionStored(Cur, FullSubmission(Cur, u, x, pressed, f, k), u, x)

\* the same, when the administrator presses nothing meanwhile
C11_HoldsUndisturbed ==
    \A u \in Users, x \in KycTexts :
        AtFirstField(u) =>
            SubmissionStored(Cur, FullSubmission(Cur, u, x, FALSE, "name", 0), u, x)

\* /start, the Verify button, and the five fields, with no press of the
\* administrator in between
FirstVerification(s, u, email) ==
    FullSubmission(press_begin_auth(NextUpdate(start(s, u)), u), u, email,
                   FALSE, "name", 0)

\* C12: a user without a User record who sends /start, taps Verify and
\* sends a valid name, ID card photo, ID number, selfie and email has a
\* User record with status pending and attempts = 1.
C12_FirstSubmissionCountsOneAttempt ==
    \A u \in Users, x \in KycTexts :
        u \notin DOMAIN users =>
            LET after == FirstVerification(Cur, u, x)
            IN  /\ u \in DOMAIN after.users
                /\ after.users[u].status = "pending"
                /\ after.users[u].attempts = 1

\* what the code does instead: the row /start inserted counts as attempt 1
C12_FirstSubmissionCountsTwoAttempts ==
    \A u \in Users, x \in KycTexts :
        u \notin DOMAIN users =>
            LET after == FirstVerification(Cur, u, x)
            IN  /\ after.users[u].status = "pending"
                /\ after.users[u].attempts = 2
                /\ after.conv[u] = "NONE"

\* the column and the collection state that belong to an issue button
ColumnOf(field_key) ==
    CASE field_key = "name" -> "name"
      [] field_key = "idnumber" -> "id_number"
      [] field_key = "idcard" -> "id_card_file_id"
      [] field_key = "selfie" -> "selfie_with_id_file_id"
      [] field_key = "email" -> "email"
StateOf(field_key) ==
    CASE field_key = "name" -> "NAME"
      [] field_key = "idnumber" -> "ID_NUMBER"
      [] field_key = "idcard" -> "ID_CARD_PHOTO"
      [] field_key = "selfie" -> "SELFIE_WITH_ID"
      [] field_key = "email" -> "EMAIL"

\* the message is a valid value for the field
ValidFor(field_key, msg) ==
    CASE field_key = "name" -> msg.text # NULL /\ is_english_name(msg.text)
      [] field_key = "idnumber" -> msg.text # NULL /\ isdigit(msg.text)
      [] field_key \in {"idcard", "selfie"} -> msg.photo # NULL
      [] field_key = "email" -> msg.text # NULL
ValueOf(msg) == IF msg.text # NULL THEN msg.text ELSE msg.photo

\* the user has been asked to send the field again
AskedFor(u, field_key) ==
    /\ u \in DOMAIN users
    /\ users[u].status = "needs_update"
    /\ users[u].pending_field = field_key

\* the row with the field replaced, back in review
Repaired(row, field_key, value) ==
    [f \in DOMAIN row |->
        IF f = ColumnOf(field_key) THEN value
        ELSE IF f = "status" THEN "pending"
        ELSE IF f = "pending_field" THEN NULL
        ELSE row[f]]

\* C13: when a user with status needs_update and pending_field = F sends a
\* valid value for F, the User record changes in F, status and
\* pending_field only, pending_field is cleared, and the conversation is in
\* none of the other four collection states.
C13_RepairChangesOnlyTheField ==
    \A u \in Users, F \in FieldKeys, msg \in KycMessages :
        (AskedFor(u, F) /\ ValidFor(F, msg)) =>
            LET after == process_message(Cur, u, msg, now)
            IN  /\ after.users[u] = Repaired(users[u], F, ValueOf(msg))
                /\ after.users[u].pending_field = NULL
                /\ after.conv[u] \notin IntakeStates \ {StateOf(F)}

\* the same, for a user whose conversation is not in the collection state
\* of another field
C13_HoldsOutsideOtherStates ==
    \A u \in Users, F \in FieldKeys, msg \in KycMessages :
        (/\ AskedFor(u, F)
         /\ ValidFor(F, msg)
         /\ conv[u] \notin IntakeStates \ {StateOf(F)}) =>
            LET after == process_message(Cur, u, msg, now)
            IN  /\ after.users[u] = Repaired(users[u], F, ValueOf(msg))
                /\ after.conv[u] = conv[u]

\* C14: in every reachable state, the pending_field of a User record is
\* set exactly when its status is needs_update.
C14_PendingFieldIffNeedsUpdate ==
    \A u \in DOMAIN users :
        users[u].pending_field # NULL <=> users[u].status = "needs_update"

\* one half holds: a needs_update record names the field to repair
C14_NeedsUpdateNamesAField ==
    \A u \in DOMAIN users :
        users[u].status = "needs_update" => users[u].pending_field \in FieldKeys

\* C15: for a user whose status is approved, begin_auth returns SELECT; a
\* press of the Verify button leaves a conversation in SELECT there and any
\* other conversation in the state it was in, and changes no record.
C15_ApprovedUserStaysInMenu ==
    \A u \in Users :
        (u \in DOMAIN users /\ users[u].status = "approved") =>
            LET after == press_begin_auth(Cur, u)
            IN  /\ begin_auth_state(users, u) = "SELECT"
                /\ after.conv[u] = conv[u]
                /\ conv[u] \notin IntakeStates => after.conv[u] \notin IntakeStates
                /\ Data(after) = Cur
                /\ after.sent = {Msg(u, "already_verified", 0)}

\* an approved user whose conversation is in SELECT, where begin_auth is
\* the handler of the Verify button
C15_Witness ==
    \E u \in Users :
        /\ u \in DOMAIN users
        /\ users[u].status = "approved"
        /\ conv[u] = "SELECT"

\* the collector of the state answers the message with a new prompt
RejectedIn(state, msg) ==
    CASE state = "NAME" -> msg.text = NULL \/ ~is_english_name(msg.text)
      [] state = "ID_NUMBER" -> msg.text = NULL \/ ~isdigit(msg.text)
      [] state \in {"ID_CARD_PHOTO", "SELFIE_WITH_ID"} -> msg.photo = NULL
      [] state = "EMAIL" -> msg.text = NULL
      [] OTHER -> FALSE

\* the sender holds an entry of a registry that log_any_message serves
HoldsRegistryEntry(u) ==
    u \in DOMAIN exchange_collect \/ u \in DOMAIN payout_wallet_collect

\* the prompts of the collectors for an input they do not take
Reprompts ==
    {"invalid_name_text_only", "invalid_name_english", "invalid_id_card",
     "invalid_id_number_text", "invalid_id_number_digits", "invalid_selfie",
     "invalid_email"}

ChangesKycState(after) == after.users # users \/ after.conv # conv
AdvancesRegistryDialog(after) ==
    \/ after.exchange_collect # exchange_collect
    \/ after.payout_wallet_collect # payout_wallet_collect
    \/ after.wallet_flow # wallet_flow
    \/ after.payout_flow # payout_flow

\* C17: no message both changes the verification state of its sender and
\* advances a registry sub-dialog; a message is served by one of the two.
C17_MessageServesOneMachine ==
    \A u \in Users, msg \in KycMessages :
        LET after == process_message(Cur, u, msg, now)
        IN  ~(ChangesKycState(after) /\ AdvancesRegistryDialog(after))

\* the part of C17 that holds: a message that a collector or the payment
\* handler has logged is not seen by log_any_message
C17_LoggedMessageStopsAtGroup0 ==
    \A u \in Users, msg \in KycMessages :
        LET first == group_0(Cur, u, msg)
        IN  first.marked => process_message(Cur, u, msg, now) = first

\* C18: a message of a sender who holds an exchange_collect or
\* payout_wallet_collect entry is served by that sub-dialog, with the result
\* the sub-dialog gives, and by no collector and no repair: the User
\* records, the conversation and the collected fields stay as they were,
\* whatever the state of the conversation and the status of the sender.
C18_RegistryEntryTakesTheMessage ==
    \A u \in Users, msg \in KycMessages :
        HoldsRegistryEntry(u) =>
            LET after == process_message(Cur, u, msg, now)
                served == log_any_message(Cur, u, msg, now)
            IN  /\ after.exchange_collect = served.exchange_collect
                /\ after.payout_wallet_collect = served.payout_wallet_collect
                /\ after.ex = served.ex
                /\ after.users = users
                /\ after.conv = conv
                /\ after.user_data = user_data

\* the same for a sender whose conversation is in no collection state and
\* whose status is not needs_update
C18_HoldsOutsideVerification ==
    \A u \in Users, msg \in KycMessages :
        (/\ HoldsRegistryEntry(u)
         /\ conv[u] \notin IntakeStates
         /\ get_user_status(users, u) # "needs_update") =>
            process_message(Cur, u, msg, now) = log_any_message(Cur, u, msg, now)

\* two messages of the same sender, one after the other
TwoMessages(s, u, first, second) ==
    process_message(NextUpdate(process_message(s, u, first, now)), u, second, now)

\* an approved user outside the intake who holds no registry entry
MayPay(u) ==
    /\ u \in DOMAIN users
    /\ users[u].status = "approved"
    /\ conv[u] \notin IntakeStates
    /\ ~HoldsRegistryEntry(u)

\* C19: when an approved user who holds no registry entry sends a
\* transaction reference as text and the evidence as a photo, in two
\* messages, one Payment record with status pending, that reference and
\* that photo is created, whichever of the two comes first.
C19_PaymentFromTwoMessages ==
    \A u \in Users, x \in KycTexts, p \in Photos :
        MayPay(u) =>
            LET created == insert_payment(payments, u, x, p)
            IN  /\ TwoMessages(Cur, u, TextMsg(x), PhotoMsg(p)).payments = created
                /\ TwoMessages(Cur, u, PhotoMsg(p), TextMsg(x)).payments = created

\* what happens instead: both messages end as plain history entries
C19_BothMessagesAreOnlyLogged ==
    \A u \in Users, x \in KycTexts, p \in Photos :
        MayPay(u) =>
            LET after == TwoMessages(Cur, u, TextMsg(x), PhotoMsg(p))
            IN  Data(after) = Cur /\ after.logged = 2 /\ after.sent = {}

\* payment_handler by itself, were it reached: the reference first, then
\* the photo
C19_HandlerTakesReferenceFirst ==
    \A u \in Users, x \in KycTexts, p \in Photos :
        MayPay(u) =>
            /\ payment_handler(payment_handler(Cur, u, TextMsg(x)), u,
                               PhotoMsg(p)).payments
                  = insert_payment(payments, u, x, p)
            /\ user_data[u].pending_payment_hash = NULL =>
                  payment_handler(payment_handler(Cur, u, PhotoMsg(p)), u,
                                  TextMsg(x)).payments = payments

\* the records, the registries, the jobs and the conversations
Records(s) ==
    [users |-> s.users, ex |-> s.ex, payments |-> s.payments,
     wallet_flow |-> s.wallet_flow, payout_flow |-> s.payout_flow,
     exchange_collect |-> s.exchange_collect,
     payout_wallet_collect |-> s.payout_wallet_collect, jobs |-> s.jobs,
     conv |-> s.conv, user_data |-> s.user_data]

\* the handler refused: the one reply, and nothing written
Refused(after, actor) ==
    /\ after.sent = {Msg(actor, "access_denied", 0)}
    /\ Records(after) = Records(Cur)
    /\ after.keyboards \subseteq keyboards
    /\ after.logged = 0

\* C20: when somebody who is not the administrator presses a button of the
\* user approval, of a field issue, of the payment approval or of the
\* exchange approval, the handler answers "Access denied." and changes no
\* record, no registry entry and no job.
C20_OnlyTheAdministratorActs ==
    \A actor \in Users, u \in Users, late \in BOOLEAN :
        /\ \A a \in {"approve_user", "reject_user"}, k \in 0..MaxSubmissions :
              Refused(handle_user_approval(Cur, actor, a, u, k, late), actor)
        /\ \A f \in FieldKeys, k \in 0..MaxSubmissions :
              Refused(handle_field_issue(Cur, actor, f, u, k, late), actor)
        /\ \A a \in {"approve_pay", "reject_pay"}, n \in 1..(Len(payments) + 1) :
              Refused(handle_payment_approval(Cur, actor, a, u, n), actor)
        /\ \A a \in ExchangeActions \cup {"approve_ex", "reject_ex"},
              exchange_id \in 1..MaxEx :
              Refused(handle_exchange_approval(Cur, actor, a, exchange_id, now, late),
                      actor)

\* a verification request of a user in review is on the screen, and an
\* exchange request waits for the transfer: the administrator's press would
\* change the User record, and so would it change the request
C20_Witness ==
    /\ \E u \in Users, k \in 0..MaxSubmissions :
          /\ <<"verify", u, k>> \in keyboards
          /\ u \in DOMAIN users
          /\ users[u].status = "pending"
          /\ handle_user_approval(Cur, Admin, "approve_user", u, k, FALSE).users
                # users
    /\ \E exchange_id \in DOMAIN exchange_requests :
          exchange_requests[exchange_id].status = "awaiting_transfer"

-----------------------------------------------------------------------------
(* Properties of the exchange when messages are not delivered              *)

\* the administrator holds the wallet_flow entry and sends a text
WalletIsSupplied(msg) == Admin \in DOMAIN wallet_flow /\ msg.text # NULL

\* C21: when the notification that follows a committed transition is not
\* delivered, the exchange_requests table is left as the transition wrote
\* it: the new request stays inserted as pending_admin, the request stays
\* awaiting_transfer, the request stays expired.
C21_FailedSendKeepsTheTransition ==
    /\ \A u \in Users, delivery \in Deliveries \ {"delivered"} :
          LET sent_ok == show_exchange(Cur, u, now)
              after == show_exchange_delivering(Cur, u, now, delivery)
          IN  Len(sent_ok.ex) = Len(exchange_requests) + 1 =>
                 /\ after.ex = sent_ok.ex
                 /\ after.ex[Len(after.ex)].status = "pending_admin"
    /\ \A msg \in Messages, n \in 0..(WalletStepSends - 1) :
          WalletIsSupplied(msg) =>
             LET exchange_id == wallet_flow[Admin].exchange_id
                 after == log_any_message_delivering(Cur, Admin, msg, now, n)
             IN  exchange_id \in DOMAIN exchange_requests =>
                    /\ after.ex = admin_wallet_step(Cur, Admin, msg, now).ex
                    /\ after.ex[exchange_id].status = "awaiting_transfer"
    /\ \A job \in jobs :
          (/\ job.exchange_id \in DOMAIN exchange_requests
           /\ exchange_requests[job.exchange_id].status = "awaiting_transfer") =>
             LET after == expire_exchange_request_delivering(Cur, job, FALSE)
             IN  /\ after.ex = expire_exchange_request(Cur, job).ex
                 /\ after.ex[job.exchange_id].status = "expired"
                 /\ after.sent = {}

\* a request is awaiting_transfer and the administrator still holds the
\* wallet_flow entry for it: a message of the wallet step was not delivered
C21_Witness ==
    \E exchange_id \in DOMAIN exchange_requests :
        /\ exchange_requests[exchange_id].status = "awaiting_transfer"
        /\ Admin \in DOMAIN wallet_flow
        /\ wallet_flow[Admin].exchange_id = exchange_id
        /\ \E job \in jobs : job.exchange_id = exchange_id

\* what the wallet step changes: the row, the armed jobs, the
\* exchange_collect registry and the wallet_flow registry
WalletStepEffects(s) == <<s.ex, s.jobs, s.exchange_collect, s.wallet_flow>>

\* C24: when the administrator supplies the deposit wallet, the four effects
\* of the step come together or not at all, however many of its messages
\* are delivered.
C24_WalletStepIsAUnit ==
    \A msg \in Messages, n \in 0..WalletStepSends :
        (WalletIsSupplied(msg) /\ wallet_flow[Admin].exchange_id \in DOMAIN exchange_requests) =>
           LET after == log_any_message_delivering(Cur, Admin, msg, now, n)
           IN  \/ WalletStepEffects(after) = WalletStepEffects(Cur)
               \/ WalletStepEffects(after) =
                     WalletStepEffects(admin_wallet_step(Cur, Admin, msg, now))

-----------------------------------------------------------------------------
(* Properties of the registries                                            *)

\* the exchange ids that the entries of one actor name, over all registries
NamedBy(actor) ==
    {wallet_flow[a].exchange_id : a \in DOMAIN wallet_flow \cap {actor}}
    \cup {payout_flow[a].exchange_id : a \in DOMAIN payout_flow \cap {actor}}
    \cup {exchange_collect[a].exchange_id : a \in DOMAIN exchange_collect \cap {actor}}
    \cup {payout_wallet_collect[a].exchange_id :
             a \in DOMAIN payout_wallet_collect \cap {actor}}

\* C22: in every reachable state the registry entries of one actor all name
\* the same exchange request.
C22_OneExchangePerActor ==
    \A actor \in Users \cup {Admin} : Cardinality(NamedBy(actor)) <= 1

\* every entry of the registry names a request that is in the status
Serves(registry, status) ==
    \A a \in DOMAIN registry :
        /\ registry[a].exchange_id \in DOMAIN exchange_requests
        /\ exchange_requests[registry[a].exchange_id].status = status

\* C25: a registry entry exists only while its request is in the status the
\* sub-dialog of the registry serves, so no entry names a terminal request.
C25_EntryOnlyWhileStatusServed ==
    /\ Serves(wallet_flow, "awaiting_wallet")
    /\ Serves(exchange_collect, "awaiting_transfer")
    /\ Serves(payout_wallet_collect, "awaiting_user_wallet")
    /\ Serves(payout_flow, "awaiting_payout")

\* C29: a request is completed only with a payout_tx_hash and a payout
\* screenshot reference that are not empty and with completed_at set, and
\* one item of the payout evidence alone does not complete the request.
C29_CompletedHasBothPayoutItems ==
    /\ \A i \in DOMAIN exchange_requests :
          exchange_requests[i].status = "completed" =>
             /\ exchange_requests[i].payout_tx_hash \notin {NULL, ""}
             /\ exchange_requests[i].payout_screenshot_file_id \notin {NULL, ""}
             /\ exchange_requests[i].completed_at # NoTime
    /\ \A msg \in Messages :
          (/\ Admin \in DOMAIN payout_flow
           /\ payout_flow[Admin].payout_tx_hash = NULL
           /\ payout_flow[Admin].payout_screenshot_file_id = NULL) =>
             LET exchange_id == payout_flow[Admin].exchange_id
                 after == process_message(Cur, Admin, msg, now)
             IN  after.ex[exchange_id].status = "completed"
                    => exchange_requests[exchange_id].status = "completed"

\* a request was completed by the second item of the payout evidence
C29_Witness ==
    \E i \in DOMAIN exchange_requests :
        /\ exchange_requests[i].status = "completed"
        /\ Admin \notin DOMAIN payout_flow

-----------------------------------------------------------------------------
(* Properties of the job that runs beside the handlers                     *)

\* C23: no step of the program takes a request from pending_admin to
\* expired: a job that found awaiting_transfer writes expired before the
\* evidence of the owner is stored.
C23_TimerNeverExpiresPendingAdmin ==
    [][\A i \in DOMAIN exchange_requests :
          exchange_requests[i].status = "pending_admin"
             => exchange_requests'[i].status # "expired"]_vars

-----------------------------------------------------------------------------
(* Properties of the users table under repairs and intakes                 *)

\* C26: a message that takes a User record from needs_update to pending
\* makes the program send the administrator one notification with a new
\* verification keyboard, whichever handler takes the message.
C26_RepairNotifiesTheAdministrator ==
    \A u \in Users, msg \in KycMessages :
        LET after == process_message(Cur, u, msg, now)
        IN  (/\ get_user_status(users, u) = "needs_update"
             /\ get_user_status(after.users, u) = "pending") =>
               \E m \in VerificationNotices(after.sent) :
                  /\ VerificationNotices(after.sent) = {m}
                  /\ <<"verify", u, m.n>> \in after.keyboards \ keyboards

\* what the user sends in the first four steps of an intake
IntakeInputs == <<TextMsg("John"), PhotoMsg("p1"), TextMsg("12345"), PhotoMsg("p1")>>

\* The first n steps of an intake run from s; after step j the administrator
\* presses an issue button under an earlier request of the user (no press
\* for j = 0).
RECURSIVE IntakeRun(_, _, _, _, _, _)
IntakeRun(s, u, n, j, field_key, k) ==
    IF n = 0 THEN s
    ELSE LET stepped == process_message(
                            NextUpdate(IntakeRun(s, u, n - 1, j, field_key, k)),
                            u, IntakeInputs[n], now)
         IN  IF n = j THEN handle_field_issue(stepped, Admin, field_key, u, k, FALSE)
             ELSE stepped

\* the row of the user holds the four collected values and the email, and
\* waits for review
HoldsSubmission(row, email) ==
    /\ row.name = IntakeInputs[1].text
    /\ row.id_card_file_id = IntakeInputs[2].photo
    /\ row.id_number = IntakeInputs[3].text
    /\ row.selfie_with_id_file_id = IntakeInputs[4].photo
    /\ row.email = email
    /\ row.status = "pending"

\* C27: in a full intake the NAME, ID_CARD, ID_NUMBER and SELFIE steps
\* leave the users table as it was, and the EMAIL step writes the five
\* fields of the user and status pending; the administrator may press an
\* issue button under an earlier request while the intake runs.
C27_IntakeWritesOnlyAtEmail ==
    \A u \in Users, j \in 0..3, field_key \in FieldKeys, k \in 0..MaxSubmissions :
        (/\ conv[u] = "NAME"
         /\ get_user_status(users, u) # "needs_update"
         /\ j > 0 => <<"verify", u, k>> \in keyboards) =>
            /\ \A n \in 1..4 :
                  LET before == IntakeRun(Cur, u, n - 1, j, field_key, k)
                  IN  process_message(NextUpdate(before), u, IntakeInputs[n], now).users
                         = before.users
            /\ LET before == IntakeRun(Cur, u, 4, j, field_key, k)
                   after == process_message(NextUpdate(before), u, TextMsg("t1"), now)
               IN  HoldsSubmission(after.users[u], "t1")

\* the message ends the intake of the user: the EMAIL step completes
CompletesIntake(s, after, u) == s.conv[u] = "EMAIL" /\ after.conv[u] = "NONE"

-----------------------------------------------------------------------------
(* Properties of the interaction log                                       *)

\* C30: an inbound message gets at most one entry in the log of
\* interactions over the handlers of group 0 and group 1, and a message that
\* a handler of group 0 marked gets no entry from log_any_message; so for
\* /start, which start records and marks.
C30_MessageIsLoggedAtMostOnce ==
    /\ \A actor \in Users \cup {Admin}, msg \in Messages \cup KycMessages :
          LET first == group_0(Cur, actor, msg)
              after == log_any_message(first, actor, msg, now)
          IN  /\ after.logged <= 1
              /\ first.marked => after.logged = first.logged
    /\ \A u \in Users :
          LET first == start(Cur, u)
          IN  /\ first.marked
              /\ log_any_message(first, u, TextMsg("/start"), now).logged = 1

\* a user is in a collection state of the intake while holding a registry
\* entry: the collector records and marks the message, and log_any_message
\* would have a sub-dialog for it
C30_Witness ==
    \E u \in Users :
        /\ conv[u] \in IntakeStates
        /\ u \in DOMAIN exchange_collect
        /\ \E msg \in KycMessages : group_0(Cur, u, msg).marked

\* C31: every inbound message gets an entry in the log of interactions,
\* whichever handler or sub-dialog takes it.
C31_EveryMessageIsLogged ==
    \A actor \in Users \cup {Admin}, msg \in Messages :
        process_message(Cur, actor, msg, now).logged >= 1

-----------------------------------------------------------------------------
(* Properties of the administrator's exchange buttons                      *)

\* the records, the registries and the armed jobs
RecordsAndRegistries(s) ==
    <<s.ex, s.users, s.payments, s.wallet_flow, s.payout_flow, s.exchange_collect,
      s.payout_wallet_collect, s.jobs, s.conv, s.user_data>>

\* C32: an exchange action of the administrator that names an id with no
\* row in exchange_requests is answered with the not-found text alone and
\* changes no record, no registry entry and no job.
C32_MissingRequestIsOnlyAnswered ==
    \A action \in ExchangeActions, exchange_id \in 1..MaxEx, late \in BOOLEAN :
        exchange_id \notin DOMAIN exchange_requests =>
           LET after == handle_exchange_approval(Cur, Admin, action, exchange_id,
                                                 now, late)
           IN  /\ RecordsAndRegistries(after) = RecordsAndRegistries(Cur)
               /\ after.sent = {Msg(Admin, "not_found", exchange_id)}

\* one request exists and is being worked on, and an id has no row
C32_Witness ==
    /\ Len(exchange_requests) = 1
    /\ Admin \in DOMAIN wallet_flow
    /\ handle_exchange_approval(Cur, Admin, "start_ex_approve", MaxEx, now, FALSE).sent
          = {Msg(Admin, "not_found", MaxEx)}

\* C34: every request in awaiting_wallet is the request that the
\* wallet_flow entry of the administrator names, so the next wallet text of
\* the administrator is for it.
C34_AwaitingWalletIsInWalletFlow ==
    \A i \in DOMAIN exchange_requests :
        exchange_requests[i].status = "awaiting_wallet" =>
            /\ Admin \in DOMAIN wallet_flow
            /\ wallet_flow[Admin].exchange_id = i

-----------------------------------------------------------------------------
(* Properties of a repair after a restart                                  *)

\* C33: after a restart, the valid value for F sent by a user whose row
\* says needs_update with pending_field = F is written to F, pending_field
\* is cleared and the status is pending; no other column changes.
C33_RepairAfterRestart ==
    \A u \in Users, F \in FieldKeys, msg \in KycMessages :
        (AskedFor(u, F) /\ ValidFor(F, msg)) =>
            LET after == process_message(restart(Cur), u, msg, now)
            IN  /\ after.users[u] = Repaired(users[u], F, ValueOf(msg))
                /\ after.users[u].pending_field = NULL
                /\ after.users[u].status = "pending"

\* the process was restarted while the user is asked for a field: what the
\* user had sent and the registry entry of the user are gone
C33_Witness ==
    \E F \in FieldKeys :
        /\ AskedFor("u2", F)
        /\ user_data["u2"] = NoData
        /\ exchange_collect = EmptyDict
        /\ conv["u2"] = "NONE"

-----------------------------------------------------------------------------
(* Properties of the approved status                                       *)

\* the status of the user after the update
StaysApproved(after, u) == get_user_status(after.users, u) = "approved"

\* C35: no message and no button press of a user takes the status of an
\* approved user away from approved: not /start, not the Verify or the
\* Exchange button, not a message in or outside an intake, and not a press
\* by a user under a verification request.
C35_UsersCannotLeaveApproved ==
    \A u \in Users :
        get_user_status(users, u) = "approved" =>
            /\ StaysApproved(start(Cur, u), u)
            /\ StaysApproved(press_begin_auth(Cur, u), u)
            /\ StaysApproved(show_exchange(Cur, u, now), u)
            /\ \A msg \in KycMessages : StaysApproved(process_message(Cur, u, msg, now), u)
            /\ \A actor \in Users, a \in FieldKeys, k \in 0..MaxSubmissions :
                  StaysApproved(handle_field_issue(Cur, actor, a, u, k, FALSE), u)
            /\ \A actor \in Users, a \in {"approve_user", "reject_user"},
                  k \in 0..MaxSubmissions :
                  StaysApproved(handle_user_approval(Cur, actor, a, u, k, FALSE), u)

\* C36: a row of exchange_requests is created only for a user whose status
\* is approved when the row is created, and the Exchange button of a user
\* in any other status creates no row, shows the administrator no keyboard
\* and sends the administrator nothing.
C36_RequestsOnlyFromApprovedUsers ==
    [][/\ \A i \in DOMAIN exchange_requests' \ DOMAIN exchange_requests :
             get_user_status(users, exchange_requests'[i].user_id) = "approved"
       /\ \A u \in Users :
             get_user_status(users, u) # "approved" =>
                LET after == show_exchange(Cur, u, now)
                IN  /\ after.ex = exchange_requests
                    /\ after.keyboards = keyboards
                    /\ \A m \in after.sent : m.to # Admin]_vars

\* a user who is not approved and has no request, beside a request of the
\* other user
C36_Witness ==
    \E u \in Users :
        /\ get_user_status(users, u) = "rejected"
        /\ \A i \in DOMAIN exchange_requests : exchange_requests[i].user_id # u
        /\ exchange_requests # <<>>

-----------------------------------------------------------------------------
(* Properties of the columns that set_exchange_status fills                *)

\* the columns set_exchange_status takes as optional arguments, and the
\* value each has while it is not set
TimeColumns == {"approved_at", "expires_at", "completed_at"}
TextColumns ==
    {"wallet_address", "user_wallet_address", "payout_tx_hash",
     "payout_screenshot_file_id"}

\* the column of the row has the value it had
Kept(row, later, columns, null) ==
    \A c \in columns : row[c] # null => later[c] = row[c]

\* C37: no step changes approved_at, expires_at, wallet_address,
\* user_wallet_address, payout_tx_hash, payout_screenshot_file_id or
\* completed_at of a request once the column holds a value.
C37_ColumnsAreWriteOnce ==
    [][\A i \in DOMAIN exchange_requests :
          /\ i \in DOMAIN exchange_requests'
          /\ Kept(exchange_requests[i], exchange_requests'[i], TimeColumns, NoTime)
          /\ Kept(exchange_requests[i], exchange_requests'[i], TextColumns, NULL)]_vars

\* the deposit wallet was supplied a second time, at a later minute: a job
\* is armed for a time that is not the expires_at the row keeps
C37_Witness ==
    \E job \in jobs :
        /\ job.exchange_id \in DOMAIN exchange_requests
        /\ exchange_requests[job.exchange_id].expires_at # NoTime
        /\ exchange_requests[job.exchange_id].expires_at # job.at

-----------------------------------------------------------------------------
(* Properties of the name validator                                        *)

\* C38: is_english_name accepts a text exactly when the text is not empty,
\* each of its characters is an ASCII letter, a space, a hyphen or an
\* apostrophe, and one of them at least is an ASCII letter.
C38_NameValidator ==
    LET wanted ==
            /\ name_text # <<>>
            /\ \A i \in DOMAIN name_text : name_text[i] \in AsciiLetters \cup {" ", "-", "'"}
            /\ \E i \in DOMAIN name_text : name_text[i] \in AsciiLetters
    IN  /\ verdict = "accepted" => wanted
        /\ verdict = "rejected" => ~wanted

\* a text of MaxLen characters with a mark among them was accepted
C38_Witness ==
    /\ verdict = "accepted"
    /\ Len(name_text) = MaxLen
    /\ \E i \in DOMAIN name_text : name_text[i] \in {" ", "-", "'"}

====
